---------------------------- MODULE Spec2Model ----------------------------
(***************************************************************************)
(* The course-recommendation pipeline of ai-course-recommender:            *)
(* vector retrieval and similar-course lookup (src/src/vector_search.py),  *)
(* scoring, path building, gap analysis, response synthesis and the        *)
(* LangGraph orchestrator (src/src/course_analytics.py), and the search    *)
(* box of the Streamlit application (src/app.py).                          *)
(*                                                                         *)
(* Conventions                                                             *)
(*  - Python text that the code lower-cases, searches or concatenates is   *)
(*    a sequence of one-character strings; opaque identifiers and the      *)
(*    fixed phrases the code only copies are TLA+ strings.                 *)
(*  - A Python dict is a record whose DOMAIN is the set of keys present;   *)
(*    Get(d, k, default) is d.get(k, default).                             *)
(*  - Scores are integers in hundredths (0.85 is 85), ratings in tenths    *)
(*    (4.0 is 40).                                                         *)
(*  - Optional values: <<>> is None, <<v>> is the value v.                 *)
(***************************************************************************)
EXTENDS Integers, Sequences, FiniteSets, TLC

VARIABLES
    pc,                 \* position of the caller / orchestrator
    query,              \* RAGState["query"]
    courses,            \* RAGState["courses"]
    recommendations,    \* RAGState["recommendations"]
    analytics,          \* RAGState["analytics"]      (optional)
    learning_path,      \* RAGState["learning_path"]  (optional)
    skill_gaps,         \* RAGState["skill_gaps"]     (optional)
    user_preferences,   \* RAGState["user_preferences"]
    context,            \* RAGState["context"]        (optional response text)
    result,             \* what course_recommendation_rag returned (optional)
    raised,             \* the exception that left the running operation (optional)
    executed,           \* history: the nodes that have run, in order
    env,                \* environment: credentials, data directory, store health, catalog rows
    open_conns,         \* history: store connections opened and not closed
    last_error,         \* history: the exception caught or raised inside retrieve (optional)
    arg_limit,          \* the limit argument of the search under way
    arg_course_id,      \* the course_id argument of get_similar_courses
    search_results,     \* what the search returned (optional)
    query_vector,       \* history: the vector embed_query answered with (optional)
    second,             \* history: what the same call returned when made again (optional)
    search_history,     \* st.session_state.search_history: the queries searched
    current_recommendations  \* st.session_state.current_recommendations (optional)

vars == <<pc, query, courses, recommendations, analytics, learning_path,
          skill_gaps, user_preferences, context, result, raised, executed,
          env, open_conns, last_error, arg_limit, arg_course_id, search_results,
          query_vector, second, search_history, current_recommendations>>

-----------------------------------------------------------------------------
(* Bounds of the model. *)

MaxScorerLen == 3       \* longest candidate list handed to the Scorer alone
MaxPathShort == 4       \* longest list over the whole Path Builder pool
MaxPathLen == 7         \* longest list over the reduced Path Builder pool
MaxGapCourses == 3      \* most target courses handed to the Gap Analyzer alone
MaxCatalogRows == 3     \* most rows of a catalog handed to the Vector Retriever alone
MaxSearchLimit == 3     \* largest limit handed to the Vector Retriever alone
MaxTwiceLen == 3        \* longest candidate list of a call that is made twice
MaxSearches == 2        \* most searches of one session of the application
MaxStoreCalls == 3      \* most insert_course / update_course_embedding calls

-----------------------------------------------------------------------------
(* Python built-ins. *)

None == <<>>
Some(v) == <<v>>

\* dict.get(k, default)
Get(d, k, default) == IF k \in DOMAIN d THEN d[k] ELSE default

\* The value of a key that is absent and read without a default: Python's None,
\* which equals no str.
NoneStr == <<"<None>">>

UpperChars == <<"A","B","C","D","E","F","G","H","I","J","K","L","M",
                "N","O","P","Q","R","S","T","U","V","W","X","Y","Z">>
LowerChars == <<"a","b","c","d","e","f","g","h","i","j","k","l","m",
                "n","o","p","q","r","s","t","u","v","w","x","y","z">>

LowerChar(c) ==
    IF \E i \in 1..Len(UpperChars) : UpperChars[i] = c
    THEN LowerChars[CHOOSE i \in 1..Len(UpperChars) : UpperChars[i] = c]
    ELSE c

\* str.lower()
Lower(s) == [i \in 1..Len(s) |-> LowerChar(s[i])]

\* `a in b` for two str
Contains(b, a) ==
    \E k \in 0..(Len(b) - Len(a)) : \A i \in 1..Len(a) : b[k + i] = a[i]

\* A value that is not a str where a str is expected: None, and the int 42.
q_42 == <<"<int 42>">>
IsStr(v) == v # NoneStr /\ v # q_42

\* `not v` for a str, None or a non-zero int
Falsy(v) == v = <<>> \/ v = NoneStr

\* str.replace(' ', '_')
ReplaceSpace(s) == [i \in 1..Len(s) |-> IF s[i] = " " THEN "_" ELSE s[i]]

\* min / max of two numbers
Min(a, b) == IF a < b THEN a ELSE b
Max(a, b) == IF a > b THEN a ELSE b

RECURSIVE SumSeq(_)
SumSeq(s) == IF s = <<>> THEN 0 ELSE Head(s) + SumSeq(Tail(s))

\* s[:n]
Take(s, n) == SubSeq(s, 1, Min(n, Len(s)))

\* every sequence over S of length at most n
SeqsUpTo(S, n) == UNION { [1..k -> S] : k \in 0..n }

-----------------------------------------------------------------------------
(* Text literals. *)

s_empty == <<>>
s_beginner == <<"b","e","g","i","n","n","e","r">>
s_Beginner == <<"B","e","g","i","n","n","e","r">>
s_intermediate == <<"i","n","t","e","r","m","e","d","i","a","t","e">>
s_advanced == <<"a","d","v","a","n","c","e","d">>
s_Advanced == <<"A","d","v","a","n","c","e","d">>
s_expert == <<"e","x","p","e","r","t">>
s_guru == <<"g","u","r","u">>
s_online == <<"o","n","l","i","n","e">>
s_hybrid == <<"h","y","b","r","i","d">>
s_ibm == <<"i","b","m">>
s_IBM_Skills == <<"I","B","M"," ","S","k","i","l","l","s">>
s_Sample_Provider == <<"S","a","m","p","l","e"," ","P","r","o","v","i","d","e","r">>
s_Learning_Path_suffix == <<" ","L","e","a","r","n","i","n","g"," ","P","a","t","h">>
s_amp == <<" ","&"," ">>
s_Professional_Development_Path == <<"P","r","o","f","e","s","s","i","o","n","a","l"," ","D","e","v","e","l","o","p","m","e","n","t"," ","P","a","t","h">>
s_Empty_Learning_Path == <<"E","m","p","t","y"," ","L","e","a","r","n","i","n","g"," ","P","a","t","h">>
s_No_courses_provided == <<"N","o"," ","c","o","u","r","s","e","s"," ","p","r","o","v","i","d","e","d">>
s_desc_prefix == <<"S","t","r","u","c","t","u","r","e","d"," ","l","e","a","r","n","i","n","g"," ","p","a","t","h"," ","p","r","o","g","r","e","s","s","i","n","g"," ","f","r","o","m"," ">>
s_desc_to == <<" ","t","o"," ">>
s_desc_level == <<" ","l","e","v","e","l">>
s_Intermediate_prefix == <<"I","n","t","e","r","m","e","d","i","a","t","e"," ">>
s_knowledge_suffix == <<" ","k","n","o","w","l","e","d","g","e">>
s_course == <<"c","o","u","r","s","e">>
s_Course_quote == <<"C","o","u","r","s","e"," ","'">>
s_too_advanced == <<"'"," ","m","a","y"," ","b","e"," ","t","o","o"," ","a","d","v","a","n","c","e","d">>
s_Missing_prerequisite == <<"M","i","s","s","i","n","g"," ","p","r","e","r","e","q","u","i","s","i","t","e",":"," ">>
s_introductory_prefix == <<"i","n","t","r","o","d","u","c","t","o","r","y","_">>
s_course_suffix == <<"_","c","o","u","r","s","e">>
s_Sample_Course_for == <<"S","a","m","p","l","e"," ","C","o","u","r","s","e"," ","f","o","r",":"," ">>
s_basic_knowledge == <<"b","a","s","i","c"," ","k","n","o","w","l","e","d","g","e">>
s_sample == <<"s","a","m","p","l","e">>
s_development == <<"d","e","v","e","l","o","p","m","e","n","t">>
s_sample_preview == <<"T","h","i","s"," ","i","s"," ","a"," ","s","a","m","p","l","e"," ","c","o","u","r","s","e"," ","m","a","t","c","h","i","n","g"," ","y","o","u","r"," ","q","u","e","r","y",":"," ">>
s_US == <<"U","S">>
s_EU == <<"E","U">>

-----------------------------------------------------------------------------
(* Recommendation Scorer: analyze_course_recommendations. *)

\* quality_boost of one candidate
QualityBoost(course) ==
      (IF Get(course, "course_rating", 0) >= 40 THEN 10 ELSE 0)
    + (IF Get(course, "enrollment_count", 0) > 1000 THEN 5 ELSE 0)
    + (IF Get(course, "certification_offered", FALSE) THEN 5 ELSE 0)

\* preference_boost of one candidate. max_duration_hours absent (None) and 0
\* are both falsy and both read here as 0.
PreferenceBoost(course, prefs) ==
      (IF Get(prefs, "skill_level", NoneStr) = Lower(Get(course, "level", s_empty))
       THEN 10 ELSE 0)
    + (IF Get(prefs, "modality", NoneStr) = Lower(Get(course, "modality", s_empty))
       THEN 5 ELSE 0)
    + (IF /\ Get(prefs, "provider_preference", s_empty) # s_empty
          /\ Contains(Lower(Get(course, "provider", s_empty)),
                      Lower(Get(prefs, "provider_preference", s_empty)))
       THEN 5 ELSE 0)
    + (IF /\ Get(prefs, "max_duration_hours", 0) # 0
          /\ Get(course, "duration_hours", 0) <= Get(prefs, "max_duration_hours", 0)
       THEN 5 ELSE 0)

\* final_score = min(1.0, base_score + quality_boost + preference_boost)
FinalScore(base_score, quality_boost, preference_boost) ==
    Min(100, base_score + quality_boost + preference_boost)

\* the reasons list before it is cut to two and joined
Reasons(base_score, course, quality_boost, preference_boost) ==
       (IF base_score > 80 THEN <<"highly relevant to your query">> ELSE <<>>)
    \o (IF Get(course, "certification_offered", FALSE)
        THEN <<"offers professional certification">> ELSE <<>>)
    \o (IF quality_boost > 10 THEN <<"highly rated by students">> ELSE <<>>)
    \o (IF preference_boost > 5 THEN <<"matches your preferences">> ELSE <<>>)

\* the reason text without the cut to two phrases
ReasonTextUncut(reasons) ==
    IF reasons = <<>> THEN <<"Good match for your needs">> ELSE reasons

\* ", ".join(reasons[:2]), kept as the list of the joined phrases
ReasonText(reasons) ==
    IF reasons = <<>> THEN <<"Good match for your needs">> ELSE Take(reasons, 2)

\* the body of the loop over the candidates: one CourseRecommendation
ScoreOne(course, prefs) ==
    LET base_score == Get(course, "similarity_score", 50)
        quality_boost == QualityBoost(course)
        preference_boost == PreferenceBoost(course, prefs)
    IN  [ course_id |-> Get(course, "course_id", ""),
          title |-> Get(course, "title", s_empty),
          provider |-> Get(course, "provider", s_empty),
          level |-> Get(course, "level", s_empty),
          duration_hours |-> Get(course, "duration_hours", 0),
          modality |-> Get(course, "modality", s_empty),
          tags |-> Get(course, "tags", <<>>),
          recommendation_score |-> FinalScore(base_score, quality_boost, preference_boost),
          recommendation_reason |->
              ReasonText(Reasons(base_score, course, quality_boost, preference_boost)),
          similarity_score |-> base_score ]

\* where list.sort(key=score, reverse=True) puts one more element: behind every
\* element whose score is not smaller (the sort is stable)
InsertPosUnstable(sorted, r) ==
    Cardinality({ i \in 1..Len(sorted) :
                    sorted[i].recommendation_score > r.recommendation_score })

InsertPos(sorted, r) ==
    Cardinality({ i \in 1..Len(sorted) :
                    sorted[i].recommendation_score >= r.recommendation_score })

InsertDesc(sorted, r) ==
    LET p == InsertPos(sorted, r)
    IN  SubSeq(sorted, 1, p) \o <<r>> \o SubSeq(sorted, p + 1, Len(sorted))

\* recommendations.sort(key=lambda x: x.recommendation_score, reverse=True)
RECURSIVE SortByScoreDesc(_, _)
SortByScoreDesc(recs, acc) ==
    IF recs = <<>> THEN acc
    ELSE SortByScoreDesc(Tail(recs), InsertDesc(acc, Head(recs)))

analyze_course_recommendations(cs, prefs) ==
    IF cs = <<>> THEN <<>>
    ELSE SortByScoreDesc([i \in 1..Len(cs) |-> ScoreOne(cs[i], prefs)], <<>>)

-----------------------------------------------------------------------------
(* Path Builder: generate_learning_path. *)

\* skill_order.get(level, 2); the keys of skill_order are lower-case
SkillOrdinal(level) ==
    CASE level = s_beginner -> 1
      [] level = s_intermediate -> 2
      [] level = s_advanced -> 3
      [] level = s_expert -> 4
      [] OTHER -> 2

\* the sort key of one candidate: skill_order.get(x.get('level', 'intermediate'), 2)
PathKey(course) == SkillOrdinal(Get(course, "level", s_intermediate))

\* sorted(courses, key=PathKey): stable, ascending
PathInsertPos(sorted, c) ==
    Cardinality({ i \in 1..Len(sorted) : PathKey(sorted[i]) <= PathKey(c) })

RECURSIVE SortByLevel(_, _)
SortByLevel(cs, acc) ==
    IF cs = <<>> THEN acc
    ELSE LET c == Head(cs)
             p == PathInsertPos(acc, c)
         IN  SortByLevel(Tail(cs),
                         SubSeq(acc, 1, p) \o <<c>> \o SubSeq(acc, p + 1, Len(acc)))

\* for i, course in enumerate(sorted_courses[:6])
PathLimitWide == 6 + 1
PathLimit == 6

\* the position-based reason of the i-th selected course (i counts from 0);
\* n is len(sorted_courses), the length before the cut to six
PositionReason(i, n) ==
    IF i = 0 THEN "Foundation course to establish core knowledge"
    ELSE IF i < n - 1 THEN "Builds upon previous concepts and introduces new skills"
    ELSE "Advanced course to master the subject area"

PathRecommendation(course, i, n) ==
    [ course_id |-> Get(course, "course_id", ""),
      title |-> Get(course, "title", s_empty),
      provider |-> Get(course, "provider", s_empty),
      level |-> Get(course, "level", s_empty),
      duration_hours |-> Get(course, "duration_hours", 0),
      modality |-> Get(course, "modality", s_empty),
      tags |-> Get(course, "tags", <<>>),
      recommendation_score |-> Get(course, "similarity_score", 70),
      recommendation_reason |-> <<PositionReason(i, n)>>,
      similarity_score |-> Get(course, "similarity_score", 70) ]

\* the orders in which a Python set of the elements S can be iterated
Orderings(S) ==
    { f \in [1..Cardinality(S) -> S] : \A i, j \in 1..Cardinality(S) : i # j => f[i] # f[j] }

\* sorted(list(set(levels)), key=ordinal): the set is iterated in an arbitrary
\* order and the stable sort keeps that order among levels of equal ordinal
SkillProgressions(sorted_courses) ==
    LET levels == { Get(sorted_courses[i], "level", s_intermediate) :
                      i \in 1..Len(sorted_courses) }
    IN  { f \in Orderings(levels) :
            \A i, j \in 1..Len(f) : i < j => SkillOrdinal(f[i]) <= SkillOrdinal(f[j]) }

RECURSIVE Flatten(_)
Flatten(ss) == IF ss = <<>> THEN <<>> ELSE Head(ss) \o Flatten(Tail(ss))

\* all_tags.count(tag)
Count(s, x) == Cardinality({ i \in 1..Len(s) : s[i] = x })

\* common_tags[:2]: the tags met more than once, in the arbitrary order in
\* which set(all_tags) is iterated, cut to two
CommonTagPrefixes(sorted_courses) ==
    LET all_tags == Flatten([i \in 1..Len(sorted_courses) |->
                               Get(sorted_courses[i], "tags", <<>>)])
        common == { all_tags[i] : i \in { k \in 1..Len(all_tags) :
                                            Count(all_tags, all_tags[k]) > 1 } }
    IN  { Take(f, 2) : f \in Orderings(common) }

\* ' & '.join(tags)
RECURSIVE JoinAmp(_)
JoinAmp(tags) ==
    IF tags = <<>> THEN <<>>
    ELSE IF Len(tags) = 1 THEN tags[1]
    ELSE tags[1] \o s_amp \o JoinAmp(Tail(tags))

PathName(common2) ==
    IF common2 = <<>> THEN s_Professional_Development_Path
    ELSE JoinAmp(common2) \o s_Learning_Path_suffix

PathDescription(skill_progression, target_skill_level) ==
    s_desc_prefix
    \o (IF skill_progression # <<>> THEN skill_progression[1] ELSE s_beginner)
    \o s_desc_to \o target_skill_level \o s_desc_level

\* estimated_months = max(1, total_duration // 20)
EstimatedMonthsUnfloored(total_duration) == total_duration \div 20

EstimatedMonths(total_duration) == Max(1, total_duration \div 20)

\* total_duration, were it summed over every candidate
TotalDurationOfAll(sorted_courses) ==
    SumSeq([i \in 1..Len(sorted_courses) |->
              Get(sorted_courses[i], "duration_hours", 0)])

\* total_duration after the loop over sorted_courses[:6]
TotalDuration(sorted_courses) ==
    LET selected == Take(sorted_courses, PathLimit)
    IN  SumSeq([i \in 1..Len(selected) |-> Get(selected[i], "duration_hours", 0)])

\* Every LearningPath generate_learning_path(courses, target) can return: one
\* for each iteration order of the two Python sets it iterates.
generate_learning_path(cs, target_skill_level) ==
    IF cs = <<>> THEN
        { [ path_name |-> s_Empty_Learning_Path,
            path_description |-> s_No_courses_provided,
            total_duration_hours |-> 0,
            estimated_completion_months |-> 0,
            skill_progression |-> <<>>,
            courses |-> <<>> ] }
    ELSE
        LET sorted_courses == SortByLevel(cs, <<>>)
            selected == Take(sorted_courses, PathLimit)
            total_duration == TotalDuration(sorted_courses)
        IN  { [ path_name |-> PathName(common2),
                path_description |-> PathDescription(prog, target_skill_level),
                total_duration_hours |-> total_duration,
                estimated_completion_months |-> EstimatedMonths(total_duration),
                skill_progression |-> prog,
                courses |-> [i \in 1..Len(selected) |->
                               PathRecommendation(selected[i], i - 1, Len(sorted_courses))] ] :
              prog \in SkillProgressions(sorted_courses),
              common2 \in CommonTagPrefixes(sorted_courses) }


-----------------------------------------------------------------------------
(* Exceptions: [type |-> the class name, msg |-> str(e), kind |-> what the  *)
(* failure is: "auth" (the service rejected the credentials), "service"    *)
(* (another Embedding / Text-Generation Service failure), "store", "os",   *)
(* "input", "config", "program"].                                          *)

t_AuthenticationError == <<"A","u","t","h","e","n","t","i","c","a","t","i","o","n","E","r","r","o","r">>
t_InvalidCredentialsError == <<"I","n","v","a","l","i","d","C","r","e","d","e","n","t","i","a","l","s","E","r","r","o","r">>
t_ApiRequestFailure == <<"A","p","i","R","e","q","u","e","s","t","F","a","i","l","u","r","e">>
t_ConnectionError == <<"C","o","n","n","e","c","t","i","o","n","E","r","r","o","r">>
t_OperationalError == <<"O","p","e","r","a","t","i","o","n","a","l","E","r","r","o","r">>
t_DatabaseError == <<"D","a","t","a","b","a","s","e","E","r","r","o","r">>
t_OSError == <<"O","S","E","r","r","o","r">>
t_ValueError == <<"V","a","l","u","e","E","r","r","o","r">>
t_UnboundLocalError == <<"U","n","b","o","u","n","d","L","o","c","a","l","E","r","r","o","r">>
m_api_key_not_found == <<"B","X","N","I","M","0","4","1","5","E",":"," ","P","r","o","v","i","d","e","d"," ","A","P","I"," ","k","e","y"," ","c","o","u","l","d"," ","n","o","t"," ","b","e"," ","f","o","u","n","d">>
m_unauthorized == <<"4","0","1"," ","U","n","a","u","t","h","o","r","i","z","e","d">>
m_token_rejected == <<"t","o","k","e","n"," ","r","e","j","e","c","t","e","d">>
m_timed_out == <<"r","e","q","u","e","s","t"," ","t","i","m","e","d"," ","o","u","t">>
m_unable_to_open == <<"u","n","a","b","l","e"," ","t","o"," ","o","p","e","n"," ","d","a","t","a","b","a","s","e"," ","f","i","l","e">>
m_not_a_database == <<"f","i","l","e"," ","i","s"," ","n","o","t"," ","a"," ","d","a","t","a","b","a","s","e">>
m_no_such_table == <<"n","o"," ","s","u","c","h"," ","t","a","b","l","e",":"," ","c","o","u","r","s","e","_","c","a","t","a","l","o","g">>
m_query_required == <<"q","u","e","r","y","_","t","e","x","t"," ","i","s"," ","r","e","q","u","i","r","e","d"," ","a","n","d"," ","m","u","s","t"," ","b","e"," ","a"," ","s","t","r","i","n","g">>
m_key_required == <<"W","A","T","S","O","N","X","_","A","P","I","_","K","E","Y"," ","e","n","v","i","r","o","n","m","e","n","t"," ","v","a","r","i","a","b","l","e"," ","i","s"," ","r","e","q","u","i","r","e","d">>
m_project_required == <<"W","A","T","S","O","N","X","_","P","R","O","J","E","C","T","_","I","D"," ","e","n","v","i","r","o","n","m","e","n","t"," ","v","a","r","i","a","b","l","e"," ","i","s"," ","r","e","q","u","i","r","e","d">>
m_makedirs == <<"P","e","r","m","i","s","s","i","o","n"," ","d","e","n","i","e","d">>
m_llm_failed == <<"s","e","r","v","i","c","e"," ","u","n","a","v","a","i","l","a","b","l","e">>
m_unbound == <<"l","o","c","a","l"," ","v","a","r","i","a","b","l","e"," ","'","r","e","s","u","l","t","s","'"," ","r","e","f","e","r","e","n","c","e","d"," ","b","e","f","o","r","e"," ","a","s","s","i","g","n","m","e","n","t">>
k_api_key == <<"a","p","i"," ","k","e","y">>
k_authentication == <<"a","u","t","h","e","n","t","i","c","a","t","i","o","n">>
k_credentials == <<"c","r","e","d","e","n","t","i","a","l","s">>
k_unauthorized == <<"u","n","a","u","t","h","o","r","i","z","e","d">>
k_bxnim0415e == <<"b","x","n","i","m","0","4","1","5","e">>
k_invalidcredentials == <<"i","n","v","a","l","i","d","c","r","e","d","e","n","t","i","a","l","s">>
k_credential == <<"c","r","e","d","e","n","t","i","a","l">>
k_auth == <<"a","u","t","h">>

Exc(type, msg, kind) == [type |-> type, msg |-> msg, kind |-> kind]

\* What embeddings.embed_query can raise. An authentication failure is
\* recognisable by a keyword of its message or by its class name (the
\* Embedding Service contract); another failure carries neither.
EmbedErrors ==
    { Exc(t_ApiRequestFailure, m_api_key_not_found, "auth"),
      Exc(t_ApiRequestFailure, m_unauthorized, "auth"),
      Exc(t_AuthenticationError, m_token_rejected, "auth"),
      Exc(t_InvalidCredentialsError, m_token_rejected, "auth"),
      Exc(t_ConnectionError, m_timed_out, "service") }

\* What llm.invoke can raise.
LlmErrors ==
    { Exc(t_ApiRequestFailure, m_unauthorized, "auth"),
      Exc(t_ConnectionError, m_llm_failed, "service") }

\* auth_keywords
AuthKeywords ==
    { k_api_key, k_authentication, k_credentials, k_unauthorized,
      k_bxnim0415e, k_invalidcredentials }

\* the test of the except clause of search_courses_by_vector: re-raise?
IsAuthErrorNever(e) == FALSE

IsAuthError(e) ==
    LET error_str == Lower(e.msg)
        error_type == Lower(e.type)
    IN  \/ \E kw \in AuthKeywords : Contains(error_str, kw)
        \/ Contains(error_type, k_credential)
        \/ Contains(error_type, k_auth)

-----------------------------------------------------------------------------
(* The Catalog Store (SQLite file data/course_catalog.db) and the process   *)
(* environment, as the record env:                                         *)
(*   api_key, project_id : the credential is set in the environment        *)
(*   data_dir : "present", "absent" (os.makedirs creates it) or "blocked"  *)
(*              (it does not exist and cannot be created)                  *)
(*   health   : "ok", "unopenable" (sqlite3.connect raises) or "broken"    *)
(*              (connect succeeds, every statement raises)                 *)
(*   table    : the table course_catalog exists                            *)
(*   rows     : its rows, in rowid order                                   *)
(*   backend  : the application could import the pipeline                 *)
(*              (BACKEND_AVAILABLE of src/app.py)                          *)

\* sqlite3.connect(db_path): the exception it raises, or None
ConnectError(e) ==
    IF e.data_dir # "present" \/ e.health = "unopenable"
    THEN Some(Exc(t_OperationalError, m_unable_to_open, "store"))
    ELSE None

\* cursor.execute of a SELECT on course_catalog: the exception it raises, or None
SelectError(e) ==
    IF e.health = "broken" THEN Some(Exc(t_DatabaseError, m_not_a_database, "store"))
    ELSE IF ~e.table THEN Some(Exc(t_OperationalError, m_no_such_table, "store"))
    ELSE None

\* json.dumps of a list of str, the text of the columns tags and prerequisites
RECURSIVE JsonItems(_)
JsonItems(xs) ==
    IF xs = <<>> THEN <<>>
    ELSE <<"\"">> \o Head(xs) \o <<"\"">>
         \o (IF Len(xs) > 1 THEN <<",", " ">> ELSE <<>>) \o JsonItems(Tail(xs))

JsonDumps(xs) == <<"[">> \o JsonItems(xs) \o <<"]">>

\* column LIKE '%' || term || '%': SQLite's LIKE ignores the case of ASCII letters
Like(column, term) == Contains(Lower(column), Lower(term))

\* SELECT title FROM course_catalog WHERE level = 'beginner'
\*   AND (title LIKE ? OR tags LIKE ?) LIMIT 1; cursor.fetchone()
BridgeCourse(rows, gap) ==
    LET hits == { i \in 1..Len(rows) :
                    /\ rows[i].level = s_beginner
                    /\ \/ Like(rows[i].title, gap)
                       \/ Like(JsonDumps(rows[i].tags), gap) }
    IN  IF hits = {} THEN None
        ELSE Some(rows[CHOOSE i \in hits : \A j \in hits : i <= j].title)

-----------------------------------------------------------------------------
(* Gap Analyzer: perform_skill_gap_analysis. *)

\* is the prerequisite met by the background or by a completed course?
PrereqMetByBackground(prereq, user_background, completed_courses) ==
    Contains(Lower(user_background), Lower(prereq))

PrereqMet(prereq, user_background, completed_courses) ==
    \/ Contains(Lower(user_background), Lower(prereq))
    \/ \E i \in 1..Len(completed_courses) :
          Contains(Lower(completed_courses[i]), Lower(prereq))

\* the gaps and issues of the prerequisites of one course, in order
RECURSIVE PrereqScan(_, _, _)
PrereqScan(prereqs, user_background, completed_courses) ==
    IF prereqs = <<>> THEN [gaps |-> <<>>, issues |-> <<>>]
    ELSE LET rest == PrereqScan(Tail(prereqs), user_background, completed_courses)
             prereq == Head(prereqs)
         IN  IF PrereqMet(prereq, user_background, completed_courses) THEN rest
             ELSE [gaps |-> <<prereq>> \o rest.gaps,
                   issues |-> <<s_Missing_prerequisite \o prereq>> \o rest.issues]

\* the body of the loop over the target courses
CourseScan(course, user_background, completed_courses) ==
    LET course_level == Lower(Get(course, "level", s_intermediate))
        lvl == IF course_level = s_advanced /\ Contains(Lower(user_background), s_beginner)
               THEN [gaps |-> << s_Intermediate_prefix \o Get(course, "title", s_course)
                                 \o s_knowledge_suffix >>,
                     issues |-> << s_Course_quote \o Get(course, "title", s_empty)
                                   \o s_too_advanced >>]
               ELSE [gaps |-> <<>>, issues |-> <<>>]
        pre == PrereqScan(Get(course, "prerequisites", <<>>), user_background,
                          completed_courses)
    IN  [gaps |-> lvl.gaps \o pre.gaps, issues |-> lvl.issues \o pre.issues]

\* identified_gaps and prerequisite_issues after the loop
RECURSIVE GapScan(_, _, _)
GapScan(target_courses, user_background, completed_courses) ==
    IF target_courses = <<>> THEN [gaps |-> <<>>, issues |-> <<>>]
    ELSE LET one == CourseScan(Head(target_courses), user_background, completed_courses)
             rest == GapScan(Tail(target_courses), user_background, completed_courses)
         IN  [gaps |-> one.gaps \o rest.gaps, issues |-> one.issues \o rest.issues]

\* gap_severity from gap_count
Severity(gap_count) ==
    IF gap_count = 0 THEN "Low"
    ELSE IF gap_count <= 2 THEN "Medium"
    ELSE "High"

\* the suggestion for one gap
Suggestion(rows, gap) ==
    LET found == BridgeCourse(rows, gap)
    IN  IF found # None THEN found[1]
        ELSE s_introductory_prefix \o ReplaceSpace(Lower(gap)) \o s_course_suffix

\* for gap in identified_gaps[:3]
GapLookupLimit == 3

\* identified_gaps as returned, without the set(): the list as accumulated
GapListsWithRepeats(identified_gaps) == { identified_gaps }

\* list(set(identified_gaps)): the distinct gaps, in any order
GapLists(identified_gaps) ==
    Orderings({ identified_gaps[i] : i \in 1..Len(identified_gaps) })

\* Every outcome of perform_skill_gap_analysis in the environment e:
\* [ret |-> the report or None, exc |-> the exception raised or None,
\*  leaked |-> connections opened and not closed]. identified_gaps is
\* list(set(...)): any order of the distinct gaps.
perform_skill_gap_analysis(target_courses, background, completed, e) ==
    LET user_background == background
        scan == GapScan(target_courses, user_background, completed)
        identified_gaps == scan.gaps
        gap_severity == Severity(Len(identified_gaps))
        Reports(recommended_additional) ==
            { [ret |-> Some([ gap_severity |-> gap_severity,
                              identified_gaps |-> ordered,
                              prerequisite_issues |-> scan.issues,
                              recommended_additional_courses |-> recommended_additional ]),
               exc |-> None, leaked |-> 0] : ordered \in GapLists(identified_gaps) }
    IN  IF identified_gaps = <<>> THEN Reports(<<>>)
        ELSE IF ConnectError(e) # None
             THEN { [ret |-> None, exc |-> ConnectError(e), leaked |-> 0] }
        ELSE IF SelectError(e) # None
             THEN { [ret |-> None, exc |-> SelectError(e), leaked |-> 1] }
        ELSE LET looked == Take(identified_gaps, GapLookupLimit)
             IN  Reports([i \in 1..Len(looked) |-> Suggestion(e.rows, looked[i])])


-----------------------------------------------------------------------------
(* Vector Retriever: search_courses_by_vector. *)

\* embeddings are vectors of two integers whose norm is an integer
Dot(q, v) == q[1] * v[1] + q[2] * v[2]
Norm(v) == CHOOSE k \in 0..(v[1] * v[1] + v[2] * v[2] + 1) : k * k = Dot(v, v)

\* np.dot(q, v) / (norm(q) * norm(v)), in hundredths
Cosine100(q, v) == (100 * Dot(q, v)) \div (Norm(q) * Norm(v))

\* content_preview: the first 200 characters
PreviewLen == 200

\* the dict built for one row with an embedding
Similarity(row, query_embedding) ==
    [ course_id |-> row.course_id, title |-> row.title, provider |-> row.provider,
      level |-> row.level, duration_hours |-> row.duration_hours,
      modality |-> row.modality, tags |-> row.tags,
      prerequisites |-> row.prerequisites, valid_regions |-> row.valid_regions,
      course_content |-> row.course_content,
      similarity_score |-> Cosine100(query_embedding, row.content_embedding[1]) ]

\* similarities.sort(key=similarity_score, reverse=True): stable
RECURSIVE SortBySimDesc(_, _)
SortBySimDesc(items, acc) ==
    IF items = <<>> THEN acc
    ELSE LET x == Head(items)
             p == Cardinality({ i \in 1..Len(acc) :
                                  acc[i].similarity_score >= x.similarity_score })
         IN  SortBySimDesc(Tail(items),
                           SubSeq(acc, 1, p) \o <<x>> \o SubSeq(acc, p + 1, Len(acc)))

\* the rows WHERE content_embedding IS NOT NULL, in rowid order
RECURSIVE Embedded(_)
Embedded(rows) ==
    IF rows = <<>> THEN <<>>
    ELSE (IF Head(rows).content_embedding # None THEN <<Head(rows)>> ELSE <<>>)
         \o Embedded(Tail(rows))

\* CourseSearchResult of one kept item
SearchResult(item) ==
    [ course_id |-> item.course_id, title |-> item.title, provider |-> item.provider,
      level |-> item.level, duration_hours |-> item.duration_hours,
      modality |-> item.modality, tags |-> item.tags,
      prerequisites |-> item.prerequisites,
      similarity_score |-> item.similarity_score,
      content_preview |-> IF item.course_content # s_empty
                          THEN Take(item.course_content, PreviewLen)
                          ELSE Take(item.title, PreviewLen),
      valid_regions |-> item.valid_regions ]

\* the body of the try block after the connection is open and the table made
TopResultsUnsorted(rows, q, limit) ==
    LET emb == Embedded(rows)
        kept == Take([i \in 1..Len(emb) |-> Similarity(emb[i], q)], limit)
    IN  [i \in 1..Len(kept) |-> SearchResult(kept[i])]

TopResults(rows, q, limit) ==
    LET emb == Embedded(rows)
        similarities == SortBySimDesc([i \in 1..Len(emb) |->
                                         Similarity(emb[i], q)], <<>>)
        kept == Take(similarities, limit)
    IN  [i \in 1..Len(kept) |-> SearchResult(kept[i])]

\* the sample data of the except clause
Placeholder(query_text) ==
    << [ course_id |-> "sample_001",
         title |-> s_Sample_Course_for \o query_text,
         provider |-> s_Sample_Provider,
         level |-> s_intermediate,
         duration_hours |-> 20,
         modality |-> s_online,
         tags |-> <<s_sample, s_development>>,
         prerequisites |-> <<s_basic_knowledge>>,
         similarity_score |-> 85,
         content_preview |-> s_sample_preview \o query_text,
         valid_regions |-> <<s_US, s_EU>> ] >>

\* The except clause: re-raise an authentication error, else the sample data.
\* e1 is the environment when the exception was raised, leaked the
\* connections open at that point.
Handle(e, query_text, e1, leaked) ==
    IF IsAuthError(e)
    THEN [ret |-> None, exc |-> Some(e), env |-> e1, leaked |-> leaked, caught |-> Some(e)]
    ELSE [ret |-> Some(Placeholder(query_text)), exc |-> None, env |-> e1,
          leaked |-> leaked, caught |-> Some(e)]

Propagate(e, e1) ==
    [ret |-> None, exc |-> Some(e), env |-> e1, leaked |-> 0, caught |-> None]

\* The outcome of search_courses_by_vector(query_text, limit) in the
\* environment e when embed_query answers with embed (a vector, or an
\* exception): [ret |-> the results or None, exc |-> the exception raised or
\* None, env |-> the environment afterwards, leaked |-> connections left open,
\* caught |-> the exception the except clause saw, or None].
search_courses_by_vector(query_text, limit, e, embed) ==
    IF Falsy(query_text) \/ ~IsStr(query_text)
    THEN Propagate(Exc(t_ValueError, m_query_required, "input"), e)
    ELSE IF ~e.api_key
    THEN Propagate(Exc(t_ValueError, m_key_required, "config"), e)
    ELSE IF ~e.project_id
    THEN Propagate(Exc(t_ValueError, m_project_required, "config"), e)
    ELSE IF e.data_dir = "blocked"
    THEN Propagate(Exc(t_OSError, m_makedirs, "os"), e)
    ELSE
        LET e1 == [e EXCEPT !.data_dir = "present"]
            e2 == [e1 EXCEPT !.table = TRUE]
        IN  IF embed.exc # None THEN Handle(embed.exc[1], query_text, e1, 0)
            ELSE IF ConnectError(e1) # None
                 THEN Handle(ConnectError(e1)[1], query_text, e1, 0)
            ELSE IF e1.health = "broken"
                 THEN Handle(Exc(t_DatabaseError, m_not_a_database, "store"),
                             query_text, e1, 1)
            ELSE [ret |-> Some(TopResults(e2.rows, embed.vec[1], limit)),
                  exc |-> None, env |-> e2, leaked |-> 0, caught |-> None]

\* SELECT content_embedding FROM course_catalog WHERE course_id = ? AND
\* content_embedding IS NOT NULL; cursor.fetchone()
ReferenceEmbedding(rows, id) ==
    LET hits == { i \in 1..Len(rows) :
                    rows[i].course_id = id /\ rows[i].content_embedding # None }
    IN  IF hits = {} THEN None
        ELSE rows[CHOOSE i \in hits : TRUE].content_embedding

\* the rows WHERE content_embedding IS NOT NULL AND course_id != ?
RECURSIVE OtherEmbedded(_, _)
OtherEmbedded(rows, id) ==
    IF rows = <<>> THEN <<>>
    ELSE (IF Head(rows).content_embedding # None /\ Head(rows).course_id # id
          THEN <<Head(rows)>> ELSE <<>>)
         \o OtherEmbedded(Tail(rows), id)

\* The outcome of get_similar_courses(id, limit) in the environment e:
\* [ret |-> the results or None, exc |-> the exception raised or None,
\*  leaked |-> connections left open]. Nothing is caught before the loop, and
\* the loop raises nothing on rows whose embeddings have the dimension of the
\* reference; the statement `return results` of the branch for a missing
\* reference is reached before results is assigned.
get_similar_courses(id, limit, e) ==
    IF ConnectError(e) # None
    THEN [ret |-> None, exc |-> ConnectError(e), leaked |-> 0]
    ELSE IF SelectError(e) # None
    THEN [ret |-> None, exc |-> SelectError(e), leaked |-> 1]
    ELSE IF ReferenceEmbedding(e.rows, id) = None
    THEN [ret |-> None,
          exc |-> Some(Exc(t_UnboundLocalError, m_unbound, "program")),
          leaked |-> 0]
    ELSE LET reference_embedding == ReferenceEmbedding(e.rows, id)[1]
             others == OtherEmbedded(e.rows, id)
             similarities == SortBySimDesc([i \in 1..Len(others) |->
                                 Similarity(others[i], reference_embedding)], <<>>)
             kept == Take(similarities, limit)
         IN  [ret |-> Some([i \in 1..Len(kept) |-> SearchResult(kept[i])]),
              exc |-> None, leaked |-> 0]

-----------------------------------------------------------------------------
(* Course analytics: generate_course_analytics. *)

s_unknown == <<"u","n","k","n","o","w","n">>

Range(s) == { s[i] : i \in 1..Len(s) }

\* [tag.lower() for tag in tags]
Lower2(tags) == [i \in 1..Len(tags) |-> Lower(tags[i])]

\* counts of the values of a list, as a function on the values met
Histogram(xs) == [v \in { xs[i] : i \in 1..Len(xs) } |-> Count(xs, v)]

\* the distinct elements of a list in the order of their first occurrence
RECURSIVE FirstOccurrences(_, _)
FirstOccurrences(xs, acc) ==
    IF xs = <<>> THEN acc
    ELSE FirstOccurrences(Tail(xs),
                          IF Count(acc, Head(xs)) > 0 THEN acc ELSE Append(acc, Head(xs)))

\* sorted(tag_counts.items(), key=count, reverse=True): stable
RECURSIVE SortByCountDesc(_, _)
SortByCountDesc(items, acc) ==
    IF items = <<>> THEN acc
    ELSE LET x == Head(items)
             p == Cardinality({ i \in 1..Len(acc) : acc[i][2] >= x[2] })
         IN  SortByCountDesc(Tail(items),
                             SubSeq(acc, 1, p) \o <<x>> \o SubSeq(acc, p + 1, Len(acc)))

RECURSIVE Positive(_)
Positive(ds) ==
    IF ds = <<>> THEN <<>>
    ELSE (IF Head(ds) > 0 THEN <<Head(ds)>> ELSE <<>>) \o Positive(Tail(ds))

\* [:10] of the tag counts
TopTagsLimit == 10

\* A mean is kept exact, as <<sum, count>>.
generate_course_analytics(cs) ==
    IF cs = <<>> THEN
        [ total_courses_analyzed |-> 0, average_similarity_score |-> <<0, 1>>,
          skill_level_distribution |-> <<>>, modality_distribution |-> <<>>,
          duration_statistics |-> <<>>, top_tags |-> <<>> ]
    ELSE
        LET n == Len(cs)
            durations == Positive([i \in 1..n |-> Get(cs[i], "duration_hours", 0)])
            all_tags == Flatten([i \in 1..n |-> Lower2(Get(cs[i], "tags", <<>>))])
            distinct == FirstOccurrences(all_tags, <<>>)
        IN  [ total_courses_analyzed |-> n,
              average_similarity_score |->
                  << SumSeq([i \in 1..n |-> Get(cs[i], "similarity_score", 0)]), n >>,
              skill_level_distribution |->
                  Histogram([i \in 1..n |-> Lower(Get(cs[i], "level", s_unknown))]),
              modality_distribution |->
                  Histogram([i \in 1..n |-> Lower(Get(cs[i], "modality", s_unknown))]),
              duration_statistics |->
                  IF durations = <<>> THEN <<>>
                  ELSE << [ min |-> CHOOSE d \in Range(durations) :
                                      \A x \in Range(durations) : d <= x,
                            max |-> CHOOSE d \in Range(durations) :
                                      \A x \in Range(durations) : d >= x,
                            mean |-> <<SumSeq(durations), Len(durations)>> ] >>,
              top_tags |->
                  Take(SortByCountDesc([i \in 1..Len(distinct) |->
                                          <<distinct[i], Count(all_tags, distinct[i])>>],
                                       <<>>),
                       TopTagsLimit) ]


-----------------------------------------------------------------------------
(* The pipeline nodes and the orchestrator (create_rag_workflow). *)

\* search_courses_by_vector(state["query"], limit=10)
RetrieveLimit == 10

\* the dict of a candidate, were the quality fields handed on with it
CourseDictWithQuality(r) ==
    [ course_id |-> r.course_id, title |-> r.title, provider |-> r.provider,
      level |-> r.level, duration_hours |-> r.duration_hours,
      modality |-> r.modality, tags |-> r.tags, prerequisites |-> r.prerequisites,
      similarity_score |-> r.similarity_score, course_content |-> r.content_preview,
      valid_regions |-> r.valid_regions, course_rating |-> 45,
      enrollment_count |-> 2000, certification_offered |-> TRUE ]

\* the dict retrieve_courses_node builds from one CourseSearchResult
CourseDict(r) ==
    [ course_id |-> r.course_id, title |-> r.title, provider |-> r.provider,
      level |-> r.level, duration_hours |-> r.duration_hours,
      modality |-> r.modality, tags |-> r.tags, prerequisites |-> r.prerequisites,
      similarity_score |-> r.similarity_score, course_content |-> r.content_preview,
      valid_regions |-> r.valid_regions ]

\* workflow.set_entry_point
EntryPoint == "retrieve"

\* workflow.add_edge: the node that follows a node
NextNodeSkipping(node) ==
    CASE node = "retrieve" -> "analyze"
      [] node = "analyze" -> "analyze_gaps"
      [] node = "create_path" -> "analyze_gaps"
      [] node = "analyze_gaps" -> "generate_response"
      [] node = "generate_response" -> "END"

NextNode(node) ==
    CASE node = "retrieve" -> "analyze"
      [] node = "analyze" -> "create_path"
      [] node = "create_path" -> "analyze_gaps"
      [] node = "analyze_gaps" -> "generate_response"
      [] node = "generate_response" -> "END"

\* workflow.invoke after a node ended: an exception raised by the node leaves
\* invoke and course_recommendation_rag; otherwise the edge is followed
AfterNodeSwallowing(node, exc) == NextNode(node)

AfterNode(node, exc) == IF exc # None THEN "aborted" ELSE NextNode(node)

\* initialize_watsonx_llm: the exception it raises, or None
LlmInitErrorNever(e) == None

LlmInitError(e) ==
    IF ~e.api_key THEN Some(Exc(t_ValueError, m_key_required, "config"))
    ELSE IF ~e.project_id THEN Some(Exc(t_ValueError, m_project_required, "config"))
    ELSE None

\* the text the Text-Generation Service answers with
s_response == <<"o","k">>

\* the dict course_recommendation_rag returns
ResultDict ==
    [ query |-> query, response |-> context, recommendations |-> recommendations,
      analytics |-> analytics, learning_path |-> learning_path,
      skill_gaps |-> skill_gaps ]

-----------------------------------------------------------------------------
(* Inputs. *)

s_ml == <<"m","l">>
s_py == <<"p","y">>
s_calc == <<"c","a","l","c">>
s_st == <<"s","t">>
s_Py == <<"P","y">>
s_ML == <<"M","L">>
s_DL == <<"D","L">>
s_Calc_1 == <<"C","a","l","c"," ","1">>
s_Beginner_py == <<"B","e","g","i","n","n","e","r"," ","p","y">>

EmptyDict == <<>>

\* candidates of the Scorer
SimValues == {-100, -10, 50, 85}

ScorerPool ==
      { [course_id |-> "c1", similarity_score |-> s] : s \in SimValues }
    \cup
      { [course_id |-> "c2", similarity_score |-> s, course_rating |-> 45,
         enrollment_count |-> 2000, certification_offered |-> TRUE,
         level |-> s_Beginner, modality |-> s_online, provider |-> s_IBM_Skills,
         duration_hours |-> 10, title |-> s_Py, tags |-> <<s_py>>] : s \in SimValues }
    \cup
      { [course_id |-> "c3", similarity_score |-> s, course_rating |-> 40,
         enrollment_count |-> 1000, certification_offered |-> FALSE,
         level |-> s_advanced, modality |-> s_hybrid, provider |-> s_Sample_Provider,
         duration_hours |-> 40, title |-> s_ML, tags |-> <<s_ml>>] : s \in SimValues }
    \cup
      { [course_id |-> "c4", level |-> s_beginner, duration_hours |-> 0] }

ScorerPrefs ==
    { EmptyDict,
      [skill_level |-> s_beginner, modality |-> s_online,
       provider_preference |-> s_ibm, max_duration_hours |-> 20],
      [skill_level |-> s_Advanced, max_duration_hours |-> 0] }

\* candidates of the Path Builder
PathPoolLong ==
    { [course_id |-> "p1", level |-> s_beginner, duration_hours |-> 10, tags |-> <<s_ml>>],
      [course_id |-> "p2", level |-> s_expert, duration_hours |-> 25,
       tags |-> <<s_ml, s_py>>, similarity_score |-> 85],
      [course_id |-> "p3", tags |-> <<s_py>>] }

PathPool ==
    PathPoolLong \cup
    { [course_id |-> "p4", level |-> s_guru, duration_hours |-> 40],
      [course_id |-> "p5", level |-> s_advanced, duration_hours |-> 5, tags |-> <<>>] }

PathInputs == SeqsUpTo(PathPool, MaxPathShort) \cup SeqsUpTo(PathPoolLong, MaxPathLen)

\* target courses of the Gap Analyzer
GapPool ==
    { [title |-> s_ML, level |-> s_Advanced, prerequisites |-> <<s_calc>>],
      [title |-> s_DL, level |-> s_advanced, prerequisites |-> <<s_calc, s_py>>],
      [level |-> s_beginner, prerequisites |-> <<s_st>>],
      [title |-> s_Py, level |-> s_intermediate] }

GapPrefs ==
    { EmptyDict,
      [background |-> s_Beginner_py],
      [background |-> s_empty, completed_courses |-> <<s_Calc_1>>] }

\* rows of the Catalog Store
Row1 ==
    [ course_id |-> "r1", title |-> s_Py, provider |-> s_IBM_Skills,
      level |-> s_beginner, duration_hours |-> 10, modality |-> s_online,
      tags |-> <<s_py>>, prerequisites |-> <<>>, valid_regions |-> <<s_US>>,
      course_content |-> s_empty, content_embedding |-> Some(<<3, 4>>) ]

Row2 ==
    [ course_id |-> "r2", title |-> s_ML, provider |-> s_Sample_Provider,
      level |-> s_advanced, duration_hours |-> 40, modality |-> s_hybrid,
      tags |-> <<s_ml, s_py>>, prerequisites |-> <<s_calc, s_py>>,
      valid_regions |-> <<s_US, s_EU>>, course_content |-> s_ml,
      content_embedding |-> Some(<<4, 3>>) ]

Row3 ==
    [ course_id |-> "r3", title |-> s_Calc_1, provider |-> s_IBM_Skills,
      level |-> s_beginner, duration_hours |-> 25, modality |-> s_online,
      tags |-> <<s_calc>>, prerequisites |-> <<>>, valid_regions |-> <<>>,
      course_content |-> s_calc, content_embedding |-> None ]

Row4 ==
    [ course_id |-> "r4", title |-> s_DL, provider |-> s_Sample_Provider,
      level |-> s_Advanced, duration_hours |-> 5, modality |-> s_online,
      tags |-> <<s_ml>>, prerequisites |-> <<s_calc>>, valid_regions |-> <<s_EU>>,
      course_content |-> s_empty, content_embedding |-> Some(<<-3, -4>>) ]

Catalogs == { <<Row1, Row2, Row3>>, <<Row4, Row2>>, <<Row3>> }

Stores ==
      { [data_dir |-> d, health |-> "ok", table |-> FALSE, rows |-> <<>>] :
          d \in {"absent", "blocked", "present"} }
    \cup
      { [data_dir |-> "present", health |-> h, table |-> TRUE, rows |-> c] :
          h \in {"ok", "unopenable", "broken"}, c \in Catalogs }

Credentials ==
    { [api_key |-> TRUE, project_id |-> TRUE],
      [api_key |-> FALSE, project_id |-> TRUE],
      [api_key |-> TRUE, project_id |-> FALSE] }

MakeEnv(cred, store) ==
    [ api_key |-> cred.api_key, project_id |-> cred.project_id, backend |-> TRUE,
      data_dir |-> store.data_dir, health |-> store.health,
      table |-> store.table, rows |-> store.rows ]

Envs == { MakeEnv(c, s) : c \in Credentials, s \in Stores }

Queries == { s_empty, s_ml, NoneStr, q_42 }

PipelinePrefs ==
    { EmptyDict,
      [skill_level |-> s_beginner, modality |-> s_online, max_duration_hours |-> 20,
       background |-> s_Beginner_py],
      [skill_level |-> s_advanced, background |-> s_basic_knowledge,
       completed_courses |-> <<s_Calc_1, s_py>>] }

\* what embed_query answers: a vector, or an exception
EmbedOutcomes ==
      { [vec |-> Some(v), exc |-> None] : v \in { <<1, 0>>, <<3, 4>> } }
    \cup
      { [vec |-> None, exc |-> Some(e)] : e \in EmbedErrors }

\* what llm.invoke answers: a text, or an exception
LlmOutcomes ==
    { [text |-> Some(s_response), exc |-> None] }
    \cup { [text |-> None, exc |-> Some(e)] : e \in LlmErrors }

-----------------------------------------------------------------------------
(* The pipeline: course_recommendation_rag. *)

\* initial_state, before workflow.invoke
Init ==
    /\ pc = EntryPoint
    /\ query \in Queries
    /\ courses = <<>>
    /\ recommendations = <<>>
    /\ analytics = None
    /\ learning_path = None
    /\ skill_gaps = None
    /\ user_preferences \in PipelinePrefs
    /\ context = s_empty
    /\ result = None
    /\ raised = None
    /\ executed = <<>>
    /\ env \in Envs
    /\ open_conns = 0
    /\ last_error = None
    /\ arg_limit = RetrieveLimit
    /\ arg_course_id = ""
    /\ search_results = None
    /\ query_vector = None
    /\ second = None
    /\ search_history = <<>>
    /\ current_recommendations = None

\* retrieve_courses_node
RetrieveNode ==
    /\ pc = "retrieve"
    /\ \E embed \in EmbedOutcomes :
         LET out == search_courses_by_vector(query, arg_limit, env, embed)
         IN  /\ env' = out.env
             /\ open_conns' = open_conns + out.leaked
             /\ last_error' = IF out.caught # None THEN out.caught ELSE out.exc
             /\ raised' = out.exc
             /\ pc' = AfterNode("retrieve", out.exc)
             /\ courses' = IF out.exc # None THEN courses
                           ELSE [i \in 1..Len(out.ret[1]) |-> CourseDict(out.ret[1][i])]
             /\ search_results' = out.ret
             /\ query_vector' = IF out.exc = None /\ out.caught = None
                                   THEN embed.vec ELSE None
    /\ executed' = Append(executed, "retrieve")
    /\ UNCHANGED <<query, recommendations, analytics, learning_path, skill_gaps,
                   user_preferences, context, result, arg_limit, arg_course_id, second, search_history,
                   current_recommendations>>

\* analyze_courses_node
AnalyzeNode ==
    /\ pc = "analyze"
    /\ recommendations' = analyze_course_recommendations(courses, user_preferences)
    /\ analytics' = Some(generate_course_analytics(courses))
    /\ pc' = AfterNode("analyze", None)
    /\ executed' = Append(executed, "analyze")
    /\ UNCHANGED <<query, courses, learning_path, skill_gaps, user_preferences,
                   context, result, raised, env, open_conns, last_error,
                   arg_limit, arg_course_id, search_results, query_vector,
                   second, search_history, current_recommendations>>

\* generate_learning_path_node, were it to write the Scorer's field as well
CreatePathNodeRescoring ==
    /\ pc = "create_path"
    /\ \E lp \in generate_learning_path(courses, s_advanced) :
         learning_path' = Some(lp)
    /\ recommendations' = <<>>
    /\ pc' = AfterNode("create_path", None)
    /\ executed' = Append(executed, "create_path")
    /\ UNCHANGED <<query, courses, analytics, skill_gaps,
                   user_preferences, context, result, raised, env, open_conns,
                   last_error,
                   arg_limit, arg_course_id, search_results, query_vector,
                   second, search_history, current_recommendations>>

\* generate_learning_path_node
CreatePathNode ==
    /\ pc = "create_path"
    /\ \E lp \in generate_learning_path(courses, s_advanced) :
         learning_path' = Some(lp)
    /\ pc' = AfterNode("create_path", None)
    /\ executed' = Append(executed, "create_path")
    /\ UNCHANGED <<query, courses, recommendations, analytics, skill_gaps,
                   user_preferences, context, result, raised, env, open_conns,
                   last_error,
                   arg_limit, arg_course_id, search_results, query_vector,
                   second, search_history, current_recommendations>>

\* skill_gap_analysis_node
AnalyzeGapsNode ==
    /\ pc = "analyze_gaps"
    /\ \E out \in perform_skill_gap_analysis(
                      courses, Get(user_preferences, "background", s_empty),
                      Get(user_preferences, "completed_courses", <<>>), env) :
         /\ skill_gaps' = IF out.exc # None THEN skill_gaps ELSE out.ret
         /\ raised' = out.exc
         /\ open_conns' = open_conns + out.leaked
         /\ pc' = AfterNode("analyze_gaps", out.exc)
    /\ executed' = Append(executed, "analyze_gaps")
    /\ UNCHANGED <<query, courses, recommendations, analytics, learning_path,
                   user_preferences, context, result, env, last_error,
                   arg_limit, arg_course_id, search_results, query_vector,
                   second, search_history, current_recommendations>>

\* generate_response_node
GenerateResponseNode ==
    /\ pc = "generate_response"
    /\ \E answer \in LlmOutcomes :
         LET exc == IF LlmInitError(env) # None THEN LlmInitError(env) ELSE answer.exc
         IN  /\ context' = IF exc # None THEN context ELSE answer.text[1]
             /\ raised' = exc
             /\ pc' = AfterNode("generate_response", exc)
    /\ executed' = Append(executed, "generate_response")
    /\ UNCHANGED <<query, courses, recommendations, analytics, learning_path,
                   skill_gaps, user_preferences, result, env, open_conns, last_error,
                   arg_limit, arg_course_id, search_results, query_vector,
                   second, search_history, current_recommendations>>

\* the return statement of course_recommendation_rag
Return ==
    /\ pc = "END"
    /\ result' = Some(ResultDict)
    /\ pc' = "done"
    /\ UNCHANGED <<query, courses, recommendations, analytics, learning_path,
                   skill_gaps, user_preferences, context, raised, executed, env,
                   open_conns, last_error,
                   arg_limit, arg_course_id, search_results, query_vector,
                   second, search_history, current_recommendations>>

\* the store file changes under the running pipeline (another process locks,
\* damages or restores it)
StoreFault ==
    /\ pc \notin {"done", "aborted"}
    /\ env.data_dir = "present"
    /\ \E h \in {"ok", "unopenable", "broken"} \ {env.health} :
         env' = [env EXCEPT !.health = h]
    /\ UNCHANGED <<pc, query, courses, recommendations, analytics, learning_path,
                   skill_gaps, user_preferences, context, result, raised, executed,
                   open_conns, last_error,
                   arg_limit, arg_course_id, search_results, query_vector,
                   second, search_history, current_recommendations>>

Next ==
    \/ RetrieveNode
    \/ AnalyzeNode
    \/ CreatePathNode
    \/ AnalyzeGapsNode
    \/ GenerateResponseNode
    \/ Return
    \/ StoreFault

Spec == Init /\ [][Next]_vars

-----------------------------------------------------------------------------
(* The Scorer, the Path Builder and the Gap Analyzer called on their own. *)

InitCall(position, cs, prefs, e) ==
    /\ pc = position
    /\ query = s_empty
    /\ courses = cs
    /\ recommendations = <<>>
    /\ analytics = None
    /\ learning_path = None
    /\ skill_gaps = None
    /\ user_preferences = prefs
    /\ context = s_empty
    /\ result = None
    /\ raised = None
    /\ executed = <<>>
    /\ env = e
    /\ open_conns = 0
    /\ last_error = None
    /\ arg_limit = RetrieveLimit
    /\ arg_course_id = ""
    /\ search_results = None
    /\ query_vector = None
    /\ second = None
    /\ search_history = <<>>
    /\ current_recommendations = None

DefaultEnv == MakeEnv([api_key |-> TRUE, project_id |-> TRUE],
                      [data_dir |-> "present", health |-> "ok", table |-> TRUE,
                       rows |-> <<Row1, Row2, Row3>>])

InitScorer ==
    \E cs \in SeqsUpTo(ScorerPool, MaxScorerLen), prefs \in ScorerPrefs :
        InitCall("call_scorer", cs, prefs, DefaultEnv)

\* analyze_course_recommendations(courses, user_preferences)
ScorerCall ==
    /\ pc = "call_scorer"
    /\ recommendations' = analyze_course_recommendations(courses, user_preferences)
    /\ pc' = "returned"
    /\ UNCHANGED <<query, courses, analytics, learning_path, skill_gaps,
                   user_preferences, context, result, raised, executed, env,
                   open_conns, last_error,
                   arg_limit, arg_course_id, search_results, query_vector,
                   second, search_history, current_recommendations>>

SpecScorer == InitScorer /\ [][ScorerCall]_vars

InitPath ==
    \E cs \in PathInputs : InitCall("call_path", cs, EmptyDict, DefaultEnv)

\* generate_learning_path(courses)
PathCall ==
    /\ pc = "call_path"
    /\ \E lp \in generate_learning_path(courses, s_advanced) :
         learning_path' = Some(lp)
    /\ pc' = "returned"
    /\ UNCHANGED <<query, courses, recommendations, analytics, skill_gaps,
                   user_preferences, context, result, raised, executed, env,
                   open_conns, last_error,
                   arg_limit, arg_course_id, search_results, query_vector,
                   second, search_history, current_recommendations>>

SpecPath == InitPath /\ [][PathCall]_vars

GapEnvs ==
    { MakeEnv([api_key |-> TRUE, project_id |-> TRUE], s) :
        s \in { st \in Stores : st.data_dir # "blocked" } }

InitGap ==
    \E cs \in SeqsUpTo(GapPool, MaxGapCourses), prefs \in GapPrefs, e \in GapEnvs :
        InitCall("call_gaps", cs, prefs, e)

\* perform_skill_gap_analysis(target_courses, user_background, completed_courses)
GapCall ==
    /\ pc = "call_gaps"
    /\ \E out \in perform_skill_gap_analysis(
                      courses, Get(user_preferences, "background", s_empty),
                      Get(user_preferences, "completed_courses", <<>>), env) :
         /\ skill_gaps' = out.ret
         /\ raised' = out.exc
         /\ open_conns' = open_conns + out.leaked
         /\ pc' = IF out.exc # None THEN "raised" ELSE "returned"
    /\ UNCHANGED <<query, courses, recommendations, analytics, learning_path,
                   user_preferences, context, result, executed, env, last_error,
                   arg_limit, arg_course_id, search_results, query_vector,
                   second, search_history, current_recommendations>>

SpecGap == InitGap /\ [][GapCall]_vars

\* a row whose embedding equals Row1's: equal similarity to every query
Row5 ==
    [ course_id |-> "r5", title |-> s_Py, provider |-> s_Sample_Provider,
      level |-> s_intermediate, duration_hours |-> 15, modality |-> s_hybrid,
      tags |-> <<>>, prerequisites |-> <<s_py>>, valid_regions |-> <<s_US>>,
      course_content |-> s_py, content_embedding |-> Some(<<3, 4>>) ]

\* catalogs of distinct courses, in every rowid order
SearchCatalogs ==
    { c \in SeqsUpTo({Row1, Row2, Row3, Row4, Row5}, MaxCatalogRows) :
        \A i, j \in 1..Len(c) : i # j => c[i].course_id # c[j].course_id }

SearchEnvs ==
      { MakeEnv([api_key |-> TRUE, project_id |-> TRUE],
                [data_dir |-> "present", health |-> "ok", table |-> TRUE, rows |-> c]) :
          c \in SearchCatalogs }
    \cup Envs

InitSearch ==
    /\ pc = "call_search"
    /\ query \in Queries
    /\ courses = <<>>
    /\ recommendations = <<>>
    /\ analytics = None
    /\ learning_path = None
    /\ skill_gaps = None
    /\ user_preferences = EmptyDict
    /\ context = s_empty
    /\ result = None
    /\ raised = None
    /\ executed = <<>>
    /\ env \in SearchEnvs
    /\ open_conns = 0
    /\ last_error = None
    /\ arg_limit \in 1..MaxSearchLimit
    /\ arg_course_id = ""
    /\ search_results = None
    /\ query_vector = None
    /\ second = None
    /\ search_history = <<>>
    /\ current_recommendations = None

\* search_courses_by_vector(query, limit)
SearchCall ==
    /\ pc = "call_search"
    /\ \E embed \in EmbedOutcomes :
         LET out == search_courses_by_vector(query, arg_limit, env, embed)
         IN  /\ env' = out.env
             /\ open_conns' = open_conns + out.leaked
             /\ last_error' = IF out.caught # None THEN out.caught ELSE out.exc
             /\ raised' = out.exc
             /\ search_results' = out.ret
             /\ query_vector' = IF out.exc = None /\ out.caught = None
                                   THEN embed.vec ELSE None
             /\ pc' = IF out.exc # None THEN "raised" ELSE "returned"
    /\ UNCHANGED <<query, courses, recommendations, analytics, learning_path,
                   skill_gaps, user_preferences, context, result, executed,
                   arg_limit, arg_course_id, second, search_history,
                   current_recommendations>>

SpecSearch == InitSearch /\ [][SearchCall]_vars

\* The Vector Retriever or the Response Synthesizer called on its own.
InitStage ==
    /\ pc \in {"call_search", "call_respond"}
    /\ query \in Queries
    /\ courses = <<>>
    /\ recommendations = <<>>
    /\ analytics = None
    /\ learning_path = None
    /\ skill_gaps = None
    /\ user_preferences = EmptyDict
    /\ context = s_empty
    /\ result = None
    /\ raised = None
    /\ executed = <<>>
    /\ env \in Envs
    /\ open_conns = 0
    /\ last_error = None
    /\ arg_limit \in 1..MaxSearchLimit
    /\ arg_course_id = ""
    /\ search_results = None
    /\ query_vector = None
    /\ second = None
    /\ search_history = <<>>
    /\ current_recommendations = None

\* generate_response_node(state)
RespondCall ==
    /\ pc = "call_respond"
    /\ \E answer \in LlmOutcomes :
         LET exc == IF LlmInitError(env) # None THEN LlmInitError(env) ELSE answer.exc
         IN  /\ context' = IF exc # None THEN context ELSE answer.text[1]
             /\ raised' = exc
             /\ pc' = IF exc # None THEN "raised" ELSE "returned"
    /\ UNCHANGED <<query, courses, recommendations, analytics, learning_path,
                   skill_gaps, user_preferences, result, executed, env, open_conns,
                   last_error, arg_limit, arg_course_id, search_results,
                   query_vector, second, search_history, current_recommendations>>

SpecStage == InitStage /\ [][SearchCall \/ RespondCall]_vars

\* course ids asked for: with an embedding, without one, unknown
SeedIds == {"r1", "r2", "r3", "r9"}

InitSimilar ==
    /\ pc = "call_similar"
    /\ query = s_empty
    /\ courses = <<>>
    /\ recommendations = <<>>
    /\ analytics = None
    /\ learning_path = None
    /\ skill_gaps = None
    /\ user_preferences = EmptyDict
    /\ context = s_empty
    /\ result = None
    /\ raised = None
    /\ executed = <<>>
    /\ env \in SearchEnvs
    /\ open_conns = 0
    /\ last_error = None
    /\ arg_limit \in 1..MaxSearchLimit
    /\ arg_course_id \in SeedIds
    /\ search_results = None
    /\ query_vector = None
    /\ second = None
    /\ search_history = <<>>
    /\ current_recommendations = None

\* get_similar_courses(course_id, limit)
SimilarCall ==
    /\ pc = "call_similar"
    /\ LET out == get_similar_courses(arg_course_id, arg_limit, env)
       IN  /\ search_results' = out.ret
           /\ raised' = out.exc
           /\ open_conns' = open_conns + out.leaked
           /\ pc' = IF out.exc # None THEN "raised" ELSE "returned"
    /\ UNCHANGED <<query, courses, recommendations, analytics, learning_path,
                   skill_gaps, user_preferences, context, result, executed, env,
                   last_error, arg_limit, arg_course_id, query_vector, second,
                   search_history, current_recommendations>>

SpecSimilar == InitSimilar /\ [][SimilarCall]_vars

-----------------------------------------------------------------------------
(* The search box of the Streamlit application: process_search_query       *)
(* (src/app.py).                                                           *)

\* characters that str.strip() and the pattern \s match
IsSpace(c) == c \in {" ", "\t", "\n"}

\* str.strip()
RECURSIVE LStrip(_)
LStrip(t) == IF t # <<>> /\ IsSpace(Head(t)) THEN LStrip(Tail(t)) ELSE t

RECURSIVE RStrip(_)
RStrip(t) ==
    IF t # <<>> /\ IsSpace(t[Len(t)]) THEN RStrip(SubSeq(t, 1, Len(t) - 1)) ELSE t

Strip(t) == RStrip(LStrip(t))

\* re.sub(r'\s+', ' ', t)
RECURSIVE CollapseSpaces(_)
CollapseSpaces(t) ==
    IF t = <<>> THEN <<>>
    ELSE IF IsSpace(Head(t))
         THEN <<" ">> \o CollapseSpaces(LStrip(t))
         ELSE <<Head(t)>> \o CollapseSpaces(Tail(t))

\* re.sub(r'[<>"\']', '', t)
RECURSIVE RemoveMarkup(_)
RemoveMarkup(t) ==
    IF t = <<>> THEN <<>>
    ELSE (IF Head(t) \in {"<", ">", "\"", "'"} THEN <<>> ELSE <<Head(t)>>)
         \o RemoveMarkup(Tail(t))

h_script == <<"<","s","c","r","i","p","t">>
h_javascript == <<"j","a","v","a","s","c","r","i","p","t",":">>
h_data == <<"d","a","t","a",":">>
h_vbscript == <<"v","b","s","c","r","i","p","t",":">>
h_onload == <<"o","n","l","o","a","d","=">>
h_onerror == <<"o","n","e","r","r","o","r","=">>

\* harmful_patterns
HarmfulPatterns == { h_script, h_javascript, h_data, h_vbscript, h_onload, h_onerror }

\* the shortest and the longest query accepted
MinQueryLen == 2
MaxQueryLen == 500

\* validate_user_input(query), for a str or None
validate_user_input(q) ==
    IF Falsy(q) \/ Strip(q) = <<>> THEN FALSE
    ELSE IF Len(Strip(q)) < MinQueryLen THEN FALSE
    ELSE IF \E pattern \in HarmfulPatterns : Contains(Lower(q), pattern) THEN FALSE
    ELSE IF Len(q) > MaxQueryLen THEN FALSE
    ELSE TRUE

\* sanitize_query(query)
sanitize_query(q) ==
    IF Falsy(q) THEN s_empty ELSE RemoveMarkup(CollapseSpaces(Strip(q)))

t_AttributeError == <<"A","t","t","r","i","b","u","t","e","E","r","r","o","r">>
m_no_strip == <<"'","i","n","t","'"," ","o","b","j","e","c","t"," ","h","a","s"," ","n","o"," ","a","t","t","r","i","b","u","t","e"," ","'","s","t","r","i","p","'">>

\* what the user types into the search box, and what a caller may hand over
s_m == <<"m">>
s_blank == <<" ">>
s_ml_spaced == <<" ","m"," "," ","l","\t">>
s_quotes == <<"'","'">>
s_angle == <<"<",">">>
s_script == <<"<","S","c","r","i","p","t",">">>
s_quoted_ml == <<"\"","m","l","\"">>

UiQueries ==
    { s_empty, NoneStr, q_42, s_m, s_blank, s_ml, s_ml_spaced, s_quotes, s_angle,
      s_script, s_quoted_ml }

UiEnvs ==
    { [e EXCEPT !.backend = b] :
        e \in { x \in Envs : x.data_dir # "absent" }, b \in BOOLEAN }

InitUI ==
    /\ pc = "ui_submit"
    /\ query \in UiQueries
    /\ courses = <<>>
    /\ recommendations = <<>>
    /\ analytics = None
    /\ learning_path = None
    /\ skill_gaps = None
    /\ user_preferences \in PipelinePrefs
    /\ context = s_empty
    /\ result = None
    /\ raised = None
    /\ executed = <<>>
    /\ env \in UiEnvs
    /\ open_conns = 0
    /\ last_error = None
    /\ arg_limit = RetrieveLimit
    /\ arg_course_id = ""
    /\ search_results = None
    /\ query_vector = None
    /\ second = None
    /\ search_history = <<>>
    /\ current_recommendations = None

\* process_search_query(query) up to the call of course_recommendation_rag
ProcessSearchQuery ==
    /\ pc = "ui_submit"
    /\ IF ~env.backend
       THEN /\ pc' = "ui_rejected"
            /\ UNCHANGED <<query, raised, search_history>>
       ELSE IF ~Falsy(query) /\ ~IsStr(query)
       THEN /\ pc' = "ui_raised"
            /\ raised' = Some(Exc(t_AttributeError, m_no_strip, "program"))
            /\ UNCHANGED <<query, search_history>>
       ELSE IF ~validate_user_input(query)
       THEN /\ pc' = "ui_rejected"
            /\ UNCHANGED <<query, raised, search_history>>
       ELSE /\ query' = sanitize_query(query)
            /\ search_history' = Append(search_history, sanitize_query(query))
            /\ pc' = EntryPoint
            /\ UNCHANGED raised
    /\ UNCHANGED <<courses, recommendations, analytics, learning_path, skill_gaps,
                   user_preferences, context, result, executed, env, open_conns,
                   last_error, arg_limit, arg_course_id, search_results,
                   query_vector, second, current_recommendations>>

\* course_recommendation_rag returned: the result is kept and rendered
ShowResults ==
    /\ pc = "done"
    /\ current_recommendations' = result
    /\ pc' = "ui_shown"
    /\ UNCHANGED <<query, courses, recommendations, analytics, learning_path,
                   skill_gaps, user_preferences, context, result, raised, executed,
                   env, open_conns, last_error, arg_limit, arg_course_id,
                   search_results, query_vector, second, search_history>>

\* except Exception as e: st.error("Search failed: ...")
ShowFailure ==
    /\ pc = "aborted"
    /\ pc' = "ui_failed"
    /\ UNCHANGED <<query, courses, recommendations, analytics, learning_path,
                   skill_gaps, user_preferences, context, result, raised, executed,
                   env, open_conns, last_error, arg_limit, arg_course_id,
                   search_results, query_vector, second, search_history,
                   current_recommendations>>

NextUI ==
    \/ ProcessSearchQuery
    \/ RetrieveNode
    \/ AnalyzeNode
    \/ CreatePathNode
    \/ AnalyzeGapsNode
    \/ GenerateResponseNode
    \/ Return
    \/ StoreFault
    \/ ShowResults
    \/ ShowFailure

SpecUI == InitUI /\ [][NextUI]_vars

\* Ingestion into the Catalog Store: insert_course and update_course_embedding
\* of src/database_utils.py. A row holds the columns the Retriever and the
\* Scorer name; instructor, price and the timestamps are left out.
StoreRow(course_data) ==
    [ course_id |-> course_data.course_id,
      title |-> course_data.title,
      provider |-> Get(course_data, "provider", NoneStr),
      level |-> Get(course_data, "level", NoneStr),
      duration_hours |-> Get(course_data, "duration_hours", 0),
      modality |-> Get(course_data, "modality", NoneStr),
      tags |-> Get(course_data, "tags", <<>>),
      prerequisites |-> Get(course_data, "prerequisites", <<>>),
      valid_regions |-> Get(course_data, "valid_regions", <<>>),
      course_content |-> Get(course_data, "course_content", NoneStr),
      course_rating |-> Get(course_data, "course_rating", 0),
      enrollment_count |-> Get(course_data, "enrollment_count", 0),
      certification_offered |-> Get(course_data, "certification_offered", FALSE),
      content_embedding |-> None ]

\* INSERT OR REPLACE on the primary key course_id: a row with that course_id
\* is deleted and the new row is inserted; a column the statement does not
\* name (content_embedding) takes its default, NULL
InsertOrReplace(rows, row) ==
    LET Other(r) == r.course_id # row.course_id
    IN  SelectSeq(rows, Other) \o <<row>>

\* UPDATE course_catalog SET content_embedding = ? WHERE course_id = ?
UpdateEmbedding(rows, id, embedding) ==
    [i \in 1..Len(rows) |->
        IF rows[i].course_id = id
        THEN [rows[i] EXCEPT !.content_embedding = Some(embedding)]
        ELSE rows[i]]

\* insert_course(course_data) in the environment e: [ret |-> the bool
\* returned, env |-> the environment after, leaked |-> connections left
\* open]. Every exception is caught and answered with False; title is NOT
\* NULL.
insert_course(course_data, e) ==
    IF ConnectError(e) # None THEN [ret |-> FALSE, env |-> e, leaked |-> 0]
    ELSE IF SelectError(e) # None \/ "title" \notin DOMAIN course_data
         THEN [ret |-> FALSE, env |-> e, leaked |-> 1]
    ELSE [ret |-> TRUE,
          env |-> [e EXCEPT !.rows = InsertOrReplace(e.rows, StoreRow(course_data))],
          leaked |-> 0]

\* update_course_embedding(course_id, embedding)
update_course_embedding(id, embedding, e) ==
    IF ConnectError(e) # None THEN [ret |-> FALSE, env |-> e, leaked |-> 0]
    ELSE IF SelectError(e) # None THEN [ret |-> FALSE, env |-> e, leaked |-> 1]
    ELSE [ret |-> TRUE,
          env |-> [e EXCEPT !.rows = UpdateEmbedding(e.rows, id, embedding)],
          leaked |-> 0]

\* what ingestion is handed
CourseData ==
    { [ course_id |-> id, title |-> t, provider |-> s_IBM_Skills, level |-> s_beginner,
        duration_hours |-> 10, modality |-> s_online, tags |-> <<s_py>>,
        course_content |-> s_py, course_rating |-> 45 ] :
        id \in {"r1", "r6"}, t \in {s_Py, s_ML} }
    \cup { [ course_id |-> "r1", provider |-> s_IBM_Skills ] }

StoreIds == {"r1", "r2", "r6"}

StoreEmbeddings == { <<3, 4>>, <<1, 0>> }

StoreEnvs ==
    { MakeEnv([api_key |-> TRUE, project_id |-> TRUE], st) : st \in Stores }

InitStore ==
    /\ pc = "ingest"
    /\ query = s_empty
    /\ courses = <<>>
    /\ recommendations = <<>>
    /\ analytics = None
    /\ learning_path = None
    /\ skill_gaps = None
    /\ user_preferences = EmptyDict
    /\ context = s_empty
    /\ result = None
    /\ raised = None
    /\ executed = <<>>
    /\ env \in StoreEnvs
    /\ open_conns = 0
    /\ last_error = None
    /\ arg_limit = RetrieveLimit
    /\ arg_course_id = ""
    /\ search_results = None
    /\ query_vector = None
    /\ second = None
    /\ search_history = <<>>
    /\ current_recommendations = None

InsertCourseCall ==
    /\ pc = "ingest"
    /\ Len(executed) < MaxStoreCalls
    /\ \E course_data \in CourseData :
         LET out == insert_course(course_data, env)
         IN  /\ env' = out.env
             /\ result' = Some(out.ret)
             /\ open_conns' = open_conns + out.leaked
             /\ arg_course_id' = course_data.course_id
    /\ executed' = Append(executed, "insert_course")
    /\ UNCHANGED <<pc, query, courses, recommendations, analytics, learning_path,
                   skill_gaps, user_preferences, context, raised, last_error,
                   arg_limit, search_results, query_vector,
                   second, search_history, current_recommendations>>

UpdateEmbeddingCall ==
    /\ pc = "ingest"
    /\ Len(executed) < MaxStoreCalls
    /\ \E id \in StoreIds, embedding \in StoreEmbeddings :
         LET out == update_course_embedding(id, embedding, env)
         IN  /\ env' = out.env
             /\ result' = Some(out.ret)
             /\ open_conns' = open_conns + out.leaked
             /\ arg_course_id' = id
    /\ executed' = Append(executed, "update_course_embedding")
    /\ UNCHANGED <<pc, query, courses, recommendations, analytics, learning_path,
                   skill_gaps, user_preferences, context, raised, last_error,
                   arg_limit, search_results, query_vector,
                   second, search_history, current_recommendations>>

SpecStore == InitStore /\ [][InsertCourseCall \/ UpdateEmbeddingCall]_vars

\* One session of the application: search after search. What main() renders
\* under "Recommended Courses" after the search box is
\* st.session_state.current_recommendations, when it holds recommendations.
SessionQueries == { s_ml, s_m }

InitSession ==
    /\ pc = "ui_submit"
    /\ query \in SessionQueries
    /\ courses = <<>>
    /\ recommendations = <<>>
    /\ analytics = None
    /\ learning_path = None
    /\ skill_gaps = None
    /\ user_preferences = EmptyDict
    /\ context = s_empty
    /\ result = None
    /\ raised = None
    /\ executed = <<>>
    /\ env = DefaultEnv
    /\ open_conns = 0
    /\ last_error = None
    /\ arg_limit = RetrieveLimit
    /\ arg_course_id = ""
    /\ search_results = None
    /\ query_vector = None
    /\ second = None
    /\ search_history = <<>>
    /\ current_recommendations = None

\* the user submits another query: the script runs again, and
\* course_recommendation_rag will build a new initial_state
NewSearch ==
    /\ pc \in {"ui_shown", "ui_failed", "ui_rejected", "ui_raised"}
    /\ Len(search_history) < MaxSearches
    /\ query' \in SessionQueries
    /\ pc' = "ui_submit"
    /\ courses' = <<>>
    /\ recommendations' = <<>>
    /\ analytics' = None
    /\ learning_path' = None
    /\ skill_gaps' = None
    /\ context' = s_empty
    /\ result' = None
    /\ raised' = None
    /\ executed' = <<>>
    /\ last_error' = None
    /\ search_results' = None
    /\ query_vector' = None
    /\ UNCHANGED <<user_preferences, env, open_conns, arg_limit, arg_course_id,
                   second, search_history, current_recommendations>>

\* main(): the recommendations rendered under "Recommended Courses"
RenderedRecommendations ==
    IF current_recommendations # None
    THEN current_recommendations[1].recommendations
    ELSE <<>>

SpecSession == InitSession /\ [][NextUI \/ NewSearch]_vars

\* The Scorer and the Path Builder called twice with the same arguments. The
\* order in which a Python set of str is iterated is fixed by the
\* interpreter's string hash seed, which changes from one run of the program
\* to the next: the two calls are not taken to share it.
InitTwice ==
    \E cs \in SeqsUpTo(PathPool, MaxTwiceLen), prefs \in ScorerPrefs :
        InitCall("call_first", cs, prefs, DefaultEnv)

\* analyze_course_recommendations(courses, user_preferences);
\* generate_learning_path(courses)
FirstCall ==
    /\ pc = "call_first"
    /\ recommendations' = analyze_course_recommendations(courses, user_preferences)
    /\ \E lp \in generate_learning_path(courses, s_advanced) :
         learning_path' = Some(lp)
    /\ pc' = "call_second"
    /\ UNCHANGED <<query, courses, analytics, skill_gaps, user_preferences, context,
                   result, raised, executed, env, open_conns, last_error,
                   arg_limit, arg_course_id, search_results, query_vector,
                   second, search_history, current_recommendations>>

SecondCall ==
    /\ pc = "call_second"
    /\ \E lp \in generate_learning_path(courses, s_advanced) :
         second' = Some([ recommendations |->
                             analyze_course_recommendations(courses, user_preferences),
                         learning_path |-> lp ])
    /\ pc' = "returned"
    /\ UNCHANGED <<query, courses, recommendations, analytics, learning_path,
                   skill_gaps, user_preferences, context, result, raised, executed,
                   env, open_conns, last_error, arg_limit, arg_course_id,
                   search_results, query_vector, search_history,
                   current_recommendations>>

SpecTwice == InitTwice /\ [][FirstCall \/ SecondCall]_vars


-----------------------------------------------------------------------------
(* Properties. *)

Last(s) == s[Len(s)]

\* C1: every Recommendation the Scorer returns has a recommendation_score
\* between 0 and 1 (0 and 100 hundredths), for similarity scores over the
\* whole cosine range and any combination of boosts.
C1_ScoreBound ==
    pc = "returned" =>
        \A i \in 1..Len(recommendations) :
            /\ 0 <= recommendations[i].recommendation_score
            /\ recommendations[i].recommendation_score <= 100

\* C2: the reported gap_severity is a function of the length of the returned
\* (deduplicated) identified_gaps: Low iff 0, Medium iff 1 or 2, High iff 3 or
\* more.
C2_SeverityOfReturnedGaps ==
    (pc = "returned" /\ skill_gaps # None) =>
        LET n == Len(skill_gaps[1].identified_gaps)
            severity == skill_gaps[1].gap_severity
        IN  /\ severity = "Low" <=> n = 0
            /\ severity = "Medium" <=> (1 <= n /\ n <= 2)
            /\ severity = "High" <=> n >= 3

\* C3: when the Embedding Service raises an authentication error during
\* retrieve, retrieve raises that very error, no placeholder course is handed
\* on, and the run aborts without recommendations and without a result.
C3_AuthErrorPropagates ==
    (last_error # None /\ last_error[1].kind = "auth") =>
        /\ raised = last_error
        /\ pc = "aborted"
        /\ courses = <<>>
        /\ recommendations = <<>>
        /\ result = None

C3_Witness ==
    /\ executed = <<"retrieve">>
    /\ last_error # None
    /\ last_error[1].kind = "auth"
    /\ pc = "aborted"

StageOrder == <<"retrieve", "analyze", "create_path", "analyze_gaps", "generate_response">>

\* C4: the stages run in the fixed order Retrieve, Score, BuildPath,
\* AnalyzeGaps, Synthesize: what has run is always a prefix of that order (no
\* stage twice, none skipped, none before its predecessor ended), the stage to
\* run next is the one after that prefix, and a run that is done ran all five.
C4_FixedStageOrder ==
    /\ Len(executed) <= Len(StageOrder)
    /\ \A i \in 1..Len(executed) : executed[i] = StageOrder[i]
    /\ pc \in {"END", "done"} => executed = StageOrder
    /\ pc \notin {"END", "done", "aborted"} => pc = StageOrder[Len(executed) + 1]

C4_Witness == pc = "done" /\ result # None /\ executed = StageOrder

\* C5: once a stage has raised, the run is aborted, no later stage executes,
\* and the entry point returns nothing: the caller never gets the partly
\* filled state.
C5_AbortDiscardsState ==
    /\ [](raised # None => (pc = "aborted" /\ result = None))
    /\ [][pc = "aborted" =>
            (pc' = "aborted" /\ executed' = executed /\ result' = None)]_vars

C5_Witness ==
    /\ pc = "aborted"
    /\ raised # None
    /\ courses # <<>>
    /\ recommendations # <<>>
    /\ learning_path # None
    /\ result = None

\* C6: a failure inside retrieve that is not an authentication failure (the
\* Embedding Service failing otherwise, the store or its location being
\* unavailable) does not leave retrieve: retrieve returns exactly the one
\* placeholder result and the run goes on to the Score stage.
C6_OtherFailureDegrades ==
    ( /\ executed = <<"retrieve">>
      /\ last_error # None
      /\ last_error[1].kind \in {"service", "store", "os"} ) =>
        /\ raised = None
        /\ pc = "analyze"
        /\ Len(courses) = 1
        /\ courses[1].course_id = "sample_001"

\* C7: the Gap Analyzer never raises because of the store: the
\* analyze_gaps stage never aborts the run.
C7_GapAnalyzerDegrades ==
    ~(pc = "aborted" /\ executed # <<>> /\ Last(executed) = "analyze_gaps")

\* the skill ordinal of the claim: beginner 1, intermediate 2, advanced 3,
\* expert 4, anything else 2
ClaimOrdinal(level) ==
    IF level = s_beginner THEN 1
    ELSE IF level = s_advanced THEN 3
    ELSE IF level = s_expert THEN 4
    ELSE 2

\* C8: for a non-empty candidate list of any length the Learning Path has at
\* most 6 courses, in non-decreasing order of skill ordinal.
C8_PathSizeAndOrder ==
    (pc = "returned" /\ learning_path # None /\ courses # <<>>) =>
        LET path == learning_path[1].courses
        IN  /\ Len(path) <= 6
            /\ \A i, j \in 1..Len(path) :
                  i < j => ClaimOrdinal(path[i].level) <= ClaimOrdinal(path[j].level)

C8_Witness ==
    /\ pc = "returned"
    /\ learning_path # None
    /\ Len(courses) > 6
    /\ Len(learning_path[1].courses) = 6
    /\ \E i \in 1..Len(courses) : Get(courses[i], "level", s_empty) = s_expert
    /\ \E i \in 1..Len(courses) : "level" \notin DOMAIN courses[i]

\* C9: the Scorer returns the stable descending sort of the scored
\* candidates: scores never increase along the list, and recommendations of
\* equal score keep the order their candidates had in the input.
C9_StableRanking ==
    pc = "returned" =>
        LET n == Len(courses)
            scored == [i \in 1..n |-> ScoreOne(courses[i], user_preferences)]
        IN  \E p \in [1..n -> 1..n] :
                /\ \A k, l \in 1..n : k # l => p[k] # p[l]
                /\ recommendations = [k \in 1..n |-> scored[p[k]]]
                /\ \A k, l \in 1..n :
                      k < l =>
                        \/ scored[p[k]].recommendation_score
                             > scored[p[l]].recommendation_score
                        \/ /\ scored[p[k]].recommendation_score
                                = scored[p[l]].recommendation_score
                           /\ p[k] < p[l]

C9_Witness ==
    /\ pc = "returned"
    /\ Len(recommendations) = 3
    /\ recommendations[1].recommendation_score > recommendations[2].recommendation_score
    /\ recommendations[2].recommendation_score = recommendations[3].recommendation_score
    /\ recommendations[2] # recommendations[3]
    /\ recommendations[2].course_id = courses[1].course_id
    /\ recommendations[3].course_id = courses[2].course_id

\* C10: every store connection a pipeline component opens is closed before
\* the operation returns or raises, on every path.
C10_ConnectionsClosed == open_conns = 0

\* C11: a retrieve call that returns without raising hands on at least one
\* course (the placeholder when the store holds no course with an embedding),
\* and a completed run returns a non-empty recommendations list.
C11_RetrieveNeverEmpty ==
    /\ (executed # <<>> /\ ~(pc = "aborted" /\ executed = <<"retrieve">>))
          => courses # <<>>
    /\ pc = "done" => result[1].recommendations # <<>>

\* cosine similarity of the query embedding and a stored embedding, in hundredths
ClaimCosine(q, v) ==
    (100 * (q[1] * v[1] + q[2] * v[2])) \div (Norm(q) * Norm(v))

\* C12: a search that succeeds without degradation returns exactly
\* min(limit, number of courses with an embedding) results, each the result of
\* a different course with an embedding, carrying its cosine similarity; no
\* course left out is more similar than a course returned, and similarities
\* never increase along the list.
C12_TopKByCosine ==
    (pc = "returned" /\ last_error = None) =>
        LET rows == env.rows
            E == { i \in 1..Len(rows) : rows[i].content_embedding # None }
            q == query_vector[1]
            sim(i) == ClaimCosine(q, rows[i].content_embedding[1])
            res == search_results[1]
            n == Len(res)
        IN  /\ n = Min(arg_limit, Cardinality(E))
            /\ \A k, l \in 1..n : k < l => res[k].similarity_score >= res[l].similarity_score
            /\ \E p \in [1..n -> E] :
                  /\ \A k, l \in 1..n : k # l => p[k] # p[l]
                  /\ \A k \in 1..n : /\ res[k].course_id = rows[p[k]].course_id
                                      /\ res[k].similarity_score = sim(p[k])
                  /\ \A i \in E \ { p[k] : k \in 1..n } :
                        \A k \in 1..n : sim(i) <= sim(p[k])

C12_Witness ==
    /\ pc = "returned"
    /\ last_error = None
    /\ arg_limit = 1
    /\ Len(env.rows) = 3
    /\ Len(search_results[1]) = 1
    /\ search_results[1][1].course_id # env.rows[1].course_id
    /\ \A i \in 1..3 : env.rows[i].content_embedding # None

\* the score the claim gives a candidate, in hundredths
ClaimScore(course, prefs) ==
    LET has(d, k) == k \in DOMAIN d
        quality ==
              (IF has(course, "course_rating") /\ course.course_rating >= 40 THEN 10 ELSE 0)
            + (IF has(course, "enrollment_count") /\ course.enrollment_count > 1000
               THEN 5 ELSE 0)
            + (IF has(course, "certification_offered") /\ course.certification_offered
               THEN 5 ELSE 0)
        preference ==
              (IF /\ has(prefs, "skill_level")
                  /\ Lower(prefs.skill_level) = Lower(Get(course, "level", s_empty))
               THEN 10 ELSE 0)
            + (IF has(prefs, "modality") /\ has(course, "modality")
                  /\ prefs.modality = course.modality
               THEN 5 ELSE 0)
            + (IF /\ has(prefs, "provider_preference")
                  /\ Contains(Lower(Get(course, "provider", s_empty)),
                              Lower(prefs.provider_preference))
               THEN 5 ELSE 0)
            + (IF /\ has(prefs, "max_duration_hours")
                  /\ prefs.max_duration_hours > 0
                  /\ Get(course, "duration_hours", 0) <= prefs.max_duration_hours
               THEN 5 ELSE 0)
    IN  Min(100, Get(course, "similarity_score", 50) + quality + preference)

\* C13: every candidate is given recommendation_score = min(1.0,
\* similarity_score + quality_boost + preference_boost), the level being
\* compared with the preferred skill_level without regard to case.
C13_ScoreFormula ==
    pc = "returned" =>
        \A i \in 1..Len(courses) :
            \E k \in 1..Len(recommendations) :
                /\ recommendations[k].course_id = courses[i].course_id
                /\ recommendations[k].similarity_score
                     = Get(courses[i], "similarity_score", 50)
                /\ recommendations[k].recommendation_score
                     = ClaimScore(courses[i], user_preferences)

\* C14: the report the Gap Analyzer returns names a prerequisite as a gap, and
\* as a "Missing prerequisite" issue, exactly when its lower-cased text is in
\* neither the lower-cased background nor a lower-cased completed course, and
\* names a level-mismatch gap for a course exactly when the course is advanced
\* and the background contains "beginner"; one advanced course with one unmet
\* prerequisite and a beginner's background gives two gaps and severity
\* Medium.
C14_GapDetection ==
    (pc = "returned" /\ skill_gaps # None) =>
        LET background == Lower(Get(user_preferences, "background", s_empty))
            completed == Get(user_preferences, "completed_courses", <<>>)
            report == skill_gaps[1]
            unmet(p) ==
                /\ ~Contains(background, Lower(p))
                /\ \A c \in 1..Len(completed) : ~Contains(Lower(completed[c]), Lower(p))
            prereqs(i) == Get(courses[i], "prerequisites", <<>>)
            missing == { prereqs(i)[j] : <<i, j>> \in
                           { x \in (1..Len(courses)) \X (1..2) :
                               x[2] <= Len(prereqs(x[1])) /\ unmet(prereqs(x[1])[x[2]]) } }
            mismatched == { i \in 1..Len(courses) :
                              /\ Lower(Get(courses[i], "level", s_intermediate)) = s_advanced
                              /\ Contains(background, s_beginner) }
            gaps == { report.identified_gaps[k] : k \in 1..Len(report.identified_gaps) }
            issues == { report.prerequisite_issues[k] :
                          k \in 1..Len(report.prerequisite_issues) }
        IN  /\ \A i \in 1..Len(courses) : Len(prereqs(i)) <= 2
            /\ gaps = missing \cup
                       { s_Intermediate_prefix \o Get(courses[i], "title", s_course)
                           \o s_knowledge_suffix : i \in mismatched }
            /\ issues = { s_Missing_prerequisite \o p : p \in missing } \cup
                         { s_Course_quote \o Get(courses[i], "title", s_empty)
                             \o s_too_advanced : i \in mismatched }
            /\ ( /\ Len(courses) = 1
                 /\ mismatched = {1}
                 /\ Len(prereqs(1)) = 1
                 /\ missing # {} )
               => (Len(report.identified_gaps) = 2 /\ report.gap_severity = "Medium")

C14_Witness ==
    /\ pc = "returned"
    /\ skill_gaps # None
    /\ Len(courses) = 1
    /\ Lower(Get(courses[1], "level", s_empty)) = s_advanced
    /\ Get(courses[1], "prerequisites", <<>>) = <<s_calc>>
    /\ Contains(Lower(Get(user_preferences, "background", s_empty)), s_beginner)
    /\ Len(skill_gaps[1].identified_gaps) = 2
    /\ skill_gaps[1].gap_severity = "Medium"

\* C15: the Scorer called twice with the same candidates and preferences
\* returns the same list, and the Path Builder called twice with the same
\* candidates returns the same Learning Path, path name and order of
\* skill_progression included.
C15_SameOutputTwice ==
    (pc = "returned" /\ second # None) =>
        /\ second[1].recommendations = recommendations
        /\ second[1].learning_path = learning_path[1]

\* C16: a search, whether it succeeds, degrades or fails, leaves the store and
\* its location as they were: the data directory, the tables and the rows are
\* the same after the call as before it.
C16_RetrieveReadOnly ==
    [][ /\ env'.data_dir = env.data_dir
        /\ env'.table = env.table
        /\ env'.rows = env.rows ]_vars

\* C17: an empty or non-string query is rejected before any work is done: a
\* search handed such a query raises the input error without calling the
\* Embedding Service, opening the store or returning the placeholder, and the
\* search box never starts a pipeline run with such a query: no stage
\* executes.
C17_InvalidQueryRejected ==
    /\ (Falsy(query) \/ ~IsStr(query)) => executed = <<>>
    /\ (last_error # None /\ last_error[1].kind = "input") =>
          /\ raised = last_error
          /\ search_results = None
          /\ courses = <<>>
          /\ query_vector = None
          /\ open_conns = 0

\* C18: when the API key or the project id is absent, the component that
\* needs it raises a configuration error: the Response Synthesizer produces
\* no response text, and the Vector Retriever, handed a valid query, raises
\* it rather than returning the placeholder.
C18_MissingCredentialRaises ==
    ( /\ pc \in {"returned", "raised"}
      /\ ~env.api_key \/ ~env.project_id
      /\ last_error = None \/ last_error[1].kind # "input" ) =>
        /\ pc = "raised"
        /\ raised # None
        /\ raised[1].kind = "config"
        /\ context = s_empty
        /\ search_results = None

C18_Witness ==
    /\ pc = "raised"
    /\ ~env.project_id
    /\ last_error = None
    /\ raised # None
    /\ raised[1].msg = m_project_required
    /\ context = s_empty

\* C19: get_similar_courses asked for a course that has no stored embedding
\* (an id the store does not know, or a course whose embedding is null), on
\* a store that answers, fails with a not-found error and returns no list.
C19_SeedNotFound ==
    ( /\ pc \in {"returned", "raised"}
      /\ ConnectError(env) = None
      /\ SelectError(env) = None
      /\ \A i \in 1..Len(env.rows) :
            env.rows[i].course_id = arg_course_id => env.rows[i].content_embedding = None )
      => /\ pc = "raised"
         /\ search_results = None
         /\ raised # None
         /\ raised[1].kind = "notfound"

\* C20: the Path Builder handed no candidate returns the sentinel path: total
\* duration 0, 0 months, no course, no skill progression; handed at least one
\* candidate it estimates at least 1 month.
C20_EmptyPathSentinel ==
    (pc = "returned" /\ learning_path # None) =>
        LET path == learning_path[1]
        IN  /\ courses = <<>> =>
                  /\ path.total_duration_hours = 0
                  /\ path.estimated_completion_months = 0
                  /\ path.courses = <<>>
                  /\ path.skill_progression = <<>>
            /\ courses # <<>> => path.estimated_completion_months >= 1

C20_Witness ==
    /\ pc = "returned"
    /\ courses = <<>>
    /\ learning_path # None
    /\ learning_path[1].estimated_completion_months = 0
    /\ learning_path[1].courses = <<>>

\* C21: in a session of searches, after a search whose pipeline run failed
\* the error message is shown and no recommendations are presented, an
\* earlier successful search notwithstanding.
C21_FailureShowsNoRecommendations ==
    pc = "ui_failed" => RenderedRecommendations = <<>>

\* C22: the identified_gaps of a Skill Gap Report holds no text twice
\* (compared case-sensitively), also when several target courses share an
\* unmet prerequisite.
C22_GapsDistinct ==
    (pc = "returned" /\ skill_gaps # None) =>
        LET gaps == skill_gaps[1].identified_gaps
        IN  \A i, j \in 1..Len(gaps) : gaps[i] = gaps[j] => i = j

\* two target courses name the same unmet prerequisite, and a report came back
C22_Witness ==
    /\ pc = "returned"
    /\ skill_gaps # None
    /\ \E i, j \in 1..Len(courses) :
          /\ i < j
          /\ \E p \in 1..Len(Get(courses[i], "prerequisites", <<>>)),
                r \in 1..Len(Get(courses[j], "prerequisites", <<>>)) :
                courses[i].prerequisites[p] = courses[j].prerequisites[r]
    /\ skill_gaps[1].identified_gaps # <<>>
    /\ Len(skill_gaps[1].identified_gaps) < Len(skill_gaps[1].prerequisite_issues)

\* C23: the reasons of a Learning Path go by position within the path: the
\* first course carries the "Foundation course" reason, the last course of a
\* path of two or more the "Advanced course" reason, every course strictly
\* between them the "Builds upon" reason; for a candidate list of any length.
C23_ReasonsByPathPosition ==
    (pc = "returned" /\ learning_path # None) =>
        LET path == learning_path[1].courses
            n == Len(path)
        IN  \A i \in 1..n :
                path[i].recommendation_reason =
                    IF i = 1
                    THEN <<"Foundation course to establish core knowledge">>
                    ELSE IF i = n
                    THEN <<"Advanced course to master the subject area">>
                    ELSE <<"Builds upon previous concepts and introduces new skills">>

\* C24: a Skill Gap Report carries at most 3 recommended_additional_courses,
\* one suggestion for each of the first 3 distinct identified gaps -- the title
\* of a matching beginner course of the catalog, else the placeholder
\* introductory_<gap>_course -- and no gap receives two suggestions.
C24_OneSuggestionPerGap ==
    (pc = "returned" /\ skill_gaps # None) =>
        LET gaps == skill_gaps[1].identified_gaps
            recs == skill_gaps[1].recommended_additional_courses
        IN  /\ Len(recs) = Min(3, Len(gaps))
            /\ \E f \in [1..Len(recs) -> 1..Len(gaps)] :
                  /\ \A k, l \in 1..Len(recs) : k # l => f[k] # f[l]
                  /\ \A k \in 1..Len(recs) :
                        \/ /\ BridgeCourse(env.rows, gaps[f[k]]) # None
                           /\ recs[k] = BridgeCourse(env.rows, gaps[f[k]])[1]
                        \/ /\ BridgeCourse(env.rows, gaps[f[k]]) = None
                           /\ recs[k] = s_introductory_prefix
                                          \o ReplaceSpace(Lower(gaps[f[k]]))
                                          \o s_course_suffix

\* C25: a stage writes its own fields of the state record and no other:
\* Retrieve courses; Score recommendations and analytics; BuildPath
\* learning_path; AnalyzeGaps skill_gaps; Synthesize the response text. query
\* and user_preferences never change, and when a stage runs the fields of the
\* later stages still hold their initial values: no stage has a later stage's
\* output to read.
C25_StagesWriteOwnFields ==
    [][ /\ query' = query
        /\ user_preferences' = user_preferences
        /\ courses' # courses => pc = "retrieve"
        /\ (recommendations' # recommendations \/ analytics' # analytics)
              => pc = "analyze"
        /\ learning_path' # learning_path => pc = "create_path"
        /\ skill_gaps' # skill_gaps => pc = "analyze_gaps"
        /\ context' # context => pc = "generate_response"
        /\ pc \in {"retrieve"} => recommendations = <<>> /\ analytics = None
        /\ pc \in {"retrieve", "analyze"} => learning_path = None
        /\ pc \in {"retrieve", "analyze", "create_path"} => skill_gaps = None
        /\ pc \in {"retrieve", "analyze", "create_path", "analyze_gaps"}
              => context = s_empty ]_vars

\* a run in which every stage has written its fields
C25_Witness ==
    /\ pc = "END"
    /\ executed = StageOrder
    /\ courses # <<>>
    /\ recommendations # <<>>
    /\ analytics # None
    /\ learning_path # None
    /\ skill_gaps # None
    /\ skill_gaps[1].identified_gaps # <<>>
    /\ context = s_response

\* the checklist of the reason text, as the claim words it
ClaimChecklist ==
    << "highly relevant to your query", "offers professional certification",
       "highly rated by students", "matches your preferences" >>

ClaimReason(course, prefs) ==
    LET Applies(k) ==
            CASE k = 1 -> Get(course, "similarity_score", 50) > 80
              [] k = 2 -> Get(course, "certification_offered", FALSE)
              [] k = 3 -> QualityBoost(course) > 10
              [] k = 4 -> PreferenceBoost(course, prefs) > 5
        applicable == SelectSeq(<<1, 2, 3, 4>>, Applies)
    IN  IF applicable = <<>> THEN <<"Good match for your needs">>
        ELSE [k \in 1..Min(2, Len(applicable)) |-> ClaimChecklist[applicable[k]]]

\* C26: the recommendation_reason of the Scorer is the first two applicable
\* entries of the checklist relevant (similarity > 0.8), certified, highly
\* rated (quality_boost > 0.1), matches preferences (preference_boost > 0.05),
\* in that order; never more than two; the fallback text exactly when no entry
\* applies.
C26_ReasonChecklist ==
    pc = "returned" =>
        LET n == Len(courses)
        IN  /\ Len(recommendations) = n
            /\ \A k \in 1..n :
                  Len(recommendations[k].recommendation_reason) \in {1, 2}
            /\ \E p \in [1..n -> 1..n] :
                  /\ \A k, l \in 1..n : k # l => p[k] # p[l]
                  /\ \A k \in 1..n :
                        /\ recommendations[k].course_id = Get(courses[p[k]], "course_id", "")
                        /\ recommendations[k].similarity_score
                             = Get(courses[p[k]], "similarity_score", 50)
                        /\ recommendations[k].recommendation_reason
                             = ClaimReason(courses[p[k]], user_preferences)

\* candidates to which three or four entries apply, one entry, and none
C26_Witness ==
    /\ pc = "returned"
    /\ \E k \in 1..Len(recommendations) :
          /\ recommendations[k].recommendation_reason
               = <<"highly relevant to your query", "offers professional certification">>
          /\ recommendations[k].recommendation_score = 100
    /\ \E k \in 1..Len(recommendations) :
          recommendations[k].recommendation_reason = <<"matches your preferences">>
    /\ \E k \in 1..Len(recommendations) :
          recommendations[k].recommendation_reason = <<"Good match for your needs">>

\* C27: for a non-empty candidate list total_duration_hours is the sum of
\* duration_hours over the courses of the path's courses list (the at most 6
\* included), and estimated_completion_months is max(1, total // 20).
C27_DurationOfIncluded ==
    (pc = "returned" /\ learning_path # None /\ courses # <<>>) =>
        LET path == learning_path[1]
            total == SumSeq([i \in 1..Len(path.courses) |->
                               path.courses[i].duration_hours])
            months == path.total_duration_hours \div 20
        IN  /\ path.total_duration_hours = total
            /\ path.estimated_completion_months = IF months > 1 THEN months ELSE 1

\* seven candidates with durations: the seventh is left out of the total
C27_Witness ==
    /\ pc = "returned"
    /\ learning_path # None
    /\ Len(courses) > 6
    /\ Len(learning_path[1].courses) = 6
    /\ \A i \in 1..Len(courses) : Get(courses[i], "duration_hours", 0) > 0
    /\ learning_path[1].estimated_completion_months > 1

\* C28: every level listed in the skill_progression of a Learning Path is the
\* level of a course of the path's courses list, and the level of every course
\* of that list is listed exactly once; also for more than 6 candidates.
C28_ProgressionOfPathLevels ==
    (pc = "returned" /\ learning_path # None) =>
        LET path == learning_path[1]
            prog == path.skill_progression
        IN  /\ \A k \in 1..Len(prog) :
                  \E i \in 1..Len(path.courses) : path.courses[i].level = prog[k]
            /\ \A i \in 1..Len(path.courses) :
                  Cardinality({ k \in 1..Len(prog) : prog[k] = path.courses[i].level }) = 1

\* C29: in a pipeline run the candidates handed from Retrieve to Score carry
\* no course_rating, enrollment_count or certification_offered, so each
\* recommendation_score is min(1.0, similarity_score + preference_boost) and
\* the reasons "offers professional certification" and "highly rated by
\* students" appear in no recommendation.
C29_NoQualityBoostInPipeline ==
    /\ \A i \in 1..Len(courses) :
          DOMAIN courses[i] \cap
            {"course_rating", "enrollment_count", "certification_offered"} = {}
    /\ \A k \in 1..Len(recommendations) :
          /\ \E i \in 1..Len(courses) :
                /\ courses[i].course_id = recommendations[k].course_id
                /\ courses[i].similarity_score = recommendations[k].similarity_score
                /\ recommendations[k].recommendation_score
                     = Min(100, courses[i].similarity_score
                                  + PreferenceBoost(courses[i], user_preferences))
          /\ \A r \in 1..Len(recommendations[k].recommendation_reason) :
                recommendations[k].recommendation_reason[r]
                  \notin {"offers professional certification", "highly rated by students"}

\* a run that scored candidates of the catalog, one of them with a
\* preference boost
C29_Witness ==
    /\ pc = "done"
    /\ Len(recommendations) >= 2
    /\ \E k \in 1..Len(recommendations) :
          /\ recommendations[k].recommendation_score
               > recommendations[k].similarity_score
          /\ recommendations[k].recommendation_reason
               = <<"highly relevant to your query", "matches your preferences">>
    /\ \E k \in 1..Len(recommendations) :
          recommendations[k].recommendation_score = recommendations[k].similarity_score

HasEmbedding(rows, id) ==
    \E i \in 1..Len(rows) : rows[i].course_id = id /\ rows[i].content_embedding # None

\* C30: over any sequence of insert_course and update_course_embedding calls
\* a course_id that has a non-null content_embedding keeps one; inserting a
\* course under an existing course_id does not clear the embedding.
C30_EmbeddingKept ==
    [][ \A id \in StoreIds :
          HasEmbedding(env.rows, id) => HasEmbedding(env'.rows, id) ]_vars


=============================================================================
